---------------------------- MODULE Spec2Model ----------------------------
(***************************************************************************)
(* A model of the Prior MCP adapter (cg3-llc/prior_mcp): the API client    *)
(* (credential resolution, request), the response shaper (formatResults,   *)
(* expandNudgeTokens) and the tool handlers built on them.                 *)
(*                                                                         *)
(* JavaScript values are tagged records [t, v]; texts are sequences of     *)
(* tokens [t, v], so that JSON.stringify and JSON.parse are computed and   *)
(* not assumed.                                                            *)
(***************************************************************************)
EXTENDS Integers, Sequences, FiniteSets, TLC

VARIABLES
    variant,    \* the build the process runs: "0.5.0", "0.3.0", "0.2.1", "0.1.0"
    options,    \* the PriorClientOptions object handed to the constructor
    env,        \* process.env, as an object
    disk,       \* ~/.prior/config.json: [exists, text]
    client,     \* the PriorApiClient: [state, error, apiUrl, _apiKey, _agentId, persistConfig, userAgent]
    fsReads,    \* number of readFileSync(CONFIG_PATH) calls made so far
    wire,       \* the requests handed to fetch, oldest first
    call,       \* the request() call in flight or last finished: [state, sent, key, res, outcome]
    fnIn,       \* the argument of the pure function under check
    fnOut,      \* its outcome
    op,         \* the tool or resource invocation in progress or last finished
    backend,    \* the feedback the Prior backend holds for the entry, "none" when it holds none
    saved,      \* the latest saveConfig call: [by, config, sent], by = 0 before the first
    inflight    \* the concurrent ensureApiKey calls of one process, by call number: [pc, sent, key]

vars == <<variant, options, env, disk, client, fsReads, wire, call, fnIn, fnOut, op, backend, saved, inflight>>

\* Every field of the records of this model, once, in the order in which
\* the records list them: TLC keeps the fields of a record in the order in
\* which it first met their names.
FieldOrder ==
    [t |-> 0, v |-> 0, ok |-> 0, readable |-> 0, state |-> 0, url |-> 0,
     method |-> 0, headers |-> 0, kind |-> 0, defined |-> 0, error |-> 0, value |-> 0,
     next |-> 0, apiUrl |-> 0, apiKey |-> 0, agentId |-> 0, persistConfig |-> 0, userAgent |-> 0,
     parses |-> 0, structuredContent |-> 0, path |-> 0, body |-> 0, status |-> 0, name |-> 0,
     pc |-> 0, args |-> 0, by |-> 0, config |-> 0, sent |-> 0, key |-> 0,
     nets |-> 0, reads |-> 0, writes |-> 0, unlinks |-> 0, result |-> 0, done |-> 0,
     text |-> 0, res |-> 0, outcome |-> 0, recorded |-> 0]

-----------------------------------------------------------------------------
(* JavaScript values *)

\* A value is a record of a tag t and a payload v.  TLC compares two records
\* field by field in the order in which it first met the field names, so
\* the tag, met first in this module, settles every comparison of values of
\* different kinds before the payloads are looked at.

Undefined == [t |-> "undefined", v |-> 0]
Null == [t |-> "null", v |-> 0]
Str(s) == [t |-> "string", v |-> s]
Num(n) == [t |-> "number", v |-> n]
Bool(b) == [t |-> "boolean", v |-> b]
Arr(items) == [t |-> "array", v |-> items]
\* an object is its own properties in insertion order: <<key, value>> pairs
Obj(pairs) == [t |-> "object", v |-> pairs]

IsNullish(x) == x.t \in {"undefined", "null"}

\* ToBoolean
Truthy(x) ==
    CASE x.t = "undefined" -> FALSE
      [] x.t = "null" -> FALSE
      [] x.t = "boolean" -> x.v
      [] x.t = "number" -> x.v # 0
      [] x.t = "string" -> x.v # ""
      [] OTHER -> TRUE

\* a || b
Or(a, b) == IF Truthy(a) THEN a ELSE b
\* a ?? b
Coalesce(a, b) == IF IsNullish(a) THEN b ELSE a

\* 'k' in o, for an object o
HasKey(o, k) == o.t = "object" /\ \E i \in 1..Len(o.v) : o.v[i][1] = k

\* o.k for a value o that is not null or undefined (a primitive or an array
\* has none of the keys the program reads)
Get(o, k) ==
    IF HasKey(o, k)
    THEN o.v[CHOOSE i \in 1..Len(o.v) : o.v[i][1] = k][2]
    ELSE Undefined

\* o?.k
OptGet(o, k) == IF IsNullish(o) THEN Undefined ELSE Get(o, k)

\* o[k] = x on a pairs list: replaces in place or appends
SetKey(pairs, k, x) ==
    IF \E i \in 1..Len(pairs) : pairs[i][1] = k
    THEN [i \in 1..Len(pairs) |-> IF pairs[i][1] = k THEN <<k, x>> ELSE pairs[i]]
    ELSE Append(pairs, <<k, x>>)

-----------------------------------------------------------------------------
(* Texts: sequences of tokens *)

P(c) == [t |-> "punct", v |-> c]        \* one of { } [ ] : ,
NL(n) == [t |-> "newline", v |-> n]     \* a line break and n spaces
SP == [t |-> "space", v |-> 1]          \* one space
S(s) == [t |-> "strlit", v |-> s]       \* the JSON string literal "s", quotes included
N(n) == [t |-> "numlit", v |-> n]       \* the decimal digits of n
L(w) == [t |-> "word", v |-> w]         \* true, false, null
T(s) == [t |-> "text", v |-> s]         \* any other characters, verbatim
R(toks) == [t |-> "rawlit", v |-> toks] \* the JSON string literal of the text toks

IsBlank(tok) == tok.t \in {"newline", "space"}


\* the concatenation of a sequence of texts
RECURSIVE Concat(_)
Concat(texts) ==
    IF texts = <<>> THEN <<>> ELSE Head(texts) \o Concat(Tail(texts))

\* JSON.stringify(x, null, 2) of a value that is not undefined, at nesting
\* indentation ind: a property whose value is undefined is left out, an
\* undefined array element is written null
RECURSIVE Serialize(_, _)
Serialize(x, ind) ==
    CASE x.t = "null" -> <<L("null")>>
      [] x.t = "boolean" -> <<L(IF x.v THEN "true" ELSE "false")>>
      [] x.t = "number" -> <<N(x.v)>>
      [] x.t = "string" -> <<S(x.v)>>
      [] x.t = "rawstring" -> <<R(x.v)>>
      [] x.t = "array" ->
            IF x.v = <<>> THEN <<P("["), P("]")>>
            ELSE <<P("[")>>
                 \o Concat([i \in 1..Len(x.v) |->
                        <<NL(ind + 2)>>
                        \o (IF x.v[i].t = "undefined" THEN <<L("null")>>
                            ELSE Serialize(x.v[i], ind + 2))
                        \o (IF i < Len(x.v) THEN <<P(",")>> ELSE <<>>)])
                 \o <<NL(ind), P("]")>>
      [] x.t = "object" ->
            LET kept == SelectSeq(x.v, LAMBDA pr : pr[2].t # "undefined")
            IN  IF kept = <<>> THEN <<P("{"), P("}")>>
                ELSE <<P("{")>>
                     \o Concat([i \in 1..Len(kept) |->
                            <<NL(ind + 2), S(kept[i][1]), P(":"), SP>>
                            \o Serialize(kept[i][2], ind + 2)
                            \o (IF i < Len(kept) THEN <<P(",")>> ELSE <<>>)])
                     \o <<NL(ind), P("}")>>

\* JSON.stringify(x, null, 2): undefined for undefined, a text otherwise
JSONstringify(x) ==
    IF x.t = "undefined" THEN [defined |-> FALSE, text |-> <<>>]
    ELSE [defined |-> TRUE, text |-> Serialize(x, 0)]

\* the first index from i on that holds no blank token (Len + 1 when none)
SkipBlank(toks, i) ==
    LET rest == {j \in i..Len(toks) : ~IsBlank(toks[j])}
    IN  IF rest = {} THEN Len(toks) + 1
        ELSE CHOOSE j \in rest : \A m \in rest : j <= m

ParseFail == [ok |-> FALSE, value |-> Undefined, next |-> 0]

IsPunct(toks, i, c) ==
    i <= Len(toks) /\ toks[i].t = "punct" /\ toks[i].v = c

\* the JSON grammar, by recursive descent: [ok, value, next].  Each step
\* hands what it has found on to the next as an argument.
RECURSIVE ParseValue(_, _), ParseElements(_, _, _), ParseMembers(_, _, _)

\* a value that starts at the token i, which is not blank
ValueAt(toks, i) ==
    IF i > Len(toks) THEN ParseFail
    ELSE CASE toks[i].t = "word" /\ toks[i].v \in {"true", "false", "null"} ->
                [ok |-> TRUE,
                 value |-> IF toks[i].v = "null" THEN Null ELSE Bool(toks[i].v = "true"),
                 next |-> i + 1]
           [] toks[i].t = "numlit" ->
                [ok |-> TRUE, value |-> Num(toks[i].v), next |-> i + 1]
           [] toks[i].t = "strlit" ->
                [ok |-> TRUE, value |-> Str(toks[i].v), next |-> i + 1]
           [] toks[i].t = "rawlit" ->
                [ok |-> TRUE, value |-> [t |-> "rawstring", v |-> toks[i].v], next |-> i + 1]
           [] IsPunct(toks, i, "[") ->
                IF IsPunct(toks, SkipBlank(toks, i + 1), "]")
                THEN [ok |-> TRUE, value |-> Arr(<<>>), next |-> SkipBlank(toks, i + 1) + 1]
                ELSE ParseElements(toks, i + 1, <<>>)
           [] IsPunct(toks, i, "{") ->
                IF IsPunct(toks, SkipBlank(toks, i + 1), "}")
                THEN [ok |-> TRUE, value |-> Obj(<<>>), next |-> SkipBlank(toks, i + 1) + 1]
                ELSE ParseMembers(toks, i + 1, <<>>)
           [] OTHER -> ParseFail

ParseValue(toks, i0) == ValueAt(toks, SkipBlank(toks, i0))

\* the elements of an array from the element e on, j the token after it
ElementsFrom(toks, acc, e, j) ==
    IF ~e.ok THEN ParseFail
    ELSE IF IsPunct(toks, j, ",") THEN ParseElements(toks, j + 1, Append(acc, e.value))
    ELSE IF IsPunct(toks, j, "]")
         THEN [ok |-> TRUE, value |-> Arr(Append(acc, e.value)), next |-> j + 1]
    ELSE ParseFail

ElementsAfter(toks, acc, e) == ElementsFrom(toks, acc, e, SkipBlank(toks, e.next))

ParseElements(toks, i, acc) == ElementsAfter(toks, acc, ParseValue(toks, i))

\* the members of an object from the member of key token i and value e on,
\* j the token after it
MembersFrom(toks, acc, i, e, j) ==
    IF ~e.ok THEN ParseFail
    ELSE IF IsPunct(toks, j, ",")
         THEN ParseMembers(toks, j + 1, SetKey(acc, toks[i].v, e.value))
    ELSE IF IsPunct(toks, j, "}")
         THEN [ok |-> TRUE, value |-> Obj(SetKey(acc, toks[i].v, e.value)), next |-> j + 1]
    ELSE ParseFail

MembersAfter(toks, acc, i, e) == MembersFrom(toks, acc, i, e, SkipBlank(toks, e.next))

\* a member whose key is to be the token i and whose colon the token c
MemberAt(toks, acc, i, c) ==
    IF ~(i <= Len(toks) /\ toks[i].t = "strlit") THEN ParseFail
    ELSE IF ~IsPunct(toks, c, ":") THEN ParseFail
    ELSE MembersAfter(toks, acc, i, ParseValue(toks, c + 1))

MemberKey(toks, acc, i) == MemberAt(toks, acc, i, SkipBlank(toks, i + 1))

ParseMembers(toks, i0, acc) == MemberKey(toks, acc, SkipBlank(toks, i0))

\* the whole text must be one value
WholeValue(toks, r) ==
    IF r.ok /\ SkipBlank(toks, r.next) > Len(toks)
    THEN [ok |-> TRUE, value |-> r.value]
    ELSE [ok |-> FALSE, value |-> Undefined]

\* JSON.parse(text): [ok, value]; ok = FALSE is the SyntaxError it throws
JSONparse(toks) == WholeValue(toks, ParseValue(toks, 1))


\* String(x), as in a template literal `${x}`
RECURSIVE ToText(_)
ToText(x) ==
    CASE x.t = "undefined" -> <<T("undefined")>>
      [] x.t = "null" -> <<L("null")>>
      [] x.t = "boolean" -> <<L(IF x.v THEN "true" ELSE "false")>>
      [] x.t = "number" -> <<N(x.v)>>
      [] x.t = "string" -> IF x.v = "" THEN <<>> ELSE <<T(x.v)>>
      [] x.t = "rawstring" -> x.v
      [] x.t = "array" ->
            Concat([i \in 1..Len(x.v) |->
                (IF IsNullish(x.v[i]) THEN <<>> ELSE ToText(x.v[i]))
                \o (IF i < Len(x.v) THEN <<T(",")>> ELSE <<>>)])
      [] x.t = "object" -> <<T("[object Object]")>>

\* the string whose characters are the text toks
RawStr(toks) == IF toks = <<>> THEN Str("") ELSE [t |-> "rawstring", v |-> toks]

-----------------------------------------------------------------------------
(* The credential store and the API client: src/src/client.ts *)

\* new Error("No Prior API key configured. ...")
NoKeyError ==
    << T("No Prior API key configured. "),
       T("Get your key at "), T("https://prior.cg3.io/account"),
       T(" and set the "), T("PRIOR_API_KEY"), T(" environment variable, "),
       T("or add it to "), T("~/.prior/config.json"),
       T(". See "), T("prior://docs/api-keys"), T(" for setup instructions.") >>

\* loadConfig(): the parsed file, or null when it cannot be read or parsed
ValueOrNull(parsed) == IF parsed.ok THEN parsed.value ELSE Null

loadConfig(d) ==
    IF ~d.readable THEN Null
    ELSE ValueOrNull(JSONparse(d.text))

\* saveConfig(config): the file after writeFileSync
\* as saveConfig, but the write stops short of the closing brace
saveConfigPartial(config) ==
    [readable |-> TRUE,
     text |-> SubSeq(JSONstringify(config).text, 1, Len(JSONstringify(config).text) - 1)]

saveConfig(config) ==
    [readable |-> TRUE, text |-> JSONstringify(config).text]

\* the default base URL of each build
DefaultApiUrl(ver) ==
    IF ver \in {"0.5.0", "0.3.0"} THEN "https://api.cg3.io" ELSE "https://share.cg3.io"

\* as Constructor, but the config file is read whenever persistence is on
\* and its record replaces a key given by option or environment
ConstructorFileOverrides(ver, opts, e, d) ==
    LET key0 == Or(Get(opts, "apiKey"), Get(e, "PRIOR_API_KEY"))
        persist == Coalesce(Get(opts, "persistConfig"), Bool(TRUE))
        config == IF Truthy(persist) THEN loadConfig(d) ELSE Null
        loaded == Truthy(persist) /\ Truthy(config)
        key1 == IF loaded THEN Get(config, "apiKey") ELSE key0
        throws == ver = "0.5.0" /\ ~Truthy(key1)
    IN  [state |-> IF throws THEN "threw" ELSE "ready",
         error |-> IF throws THEN NoKeyError ELSE <<>>,
         apiUrl |-> Str(DefaultApiUrl(ver)),
         apiKey |-> key1,
         agentId |-> IF loaded THEN Get(config, "agentId") ELSE Get(opts, "agentId"),
         persistConfig |-> persist,
         userAgent |-> Str("prior-mcp/" \o ver),
         reads |-> IF Truthy(persist) THEN 1 ELSE 0]

\* as Constructor, but without the final check for a key
ConstructorNoThrow(ver, opts, e, d) ==
    LET key0 == Or(Get(opts, "apiKey"), Get(e, "PRIOR_API_KEY"))
        persist == Coalesce(Get(opts, "persistConfig"), Bool(TRUE))
        consult == ~Truthy(key0) /\ Truthy(persist)
        config == IF consult THEN loadConfig(d) ELSE Null
        loaded == consult /\ Truthy(config)
    IN  [state |-> "ready",
         error |-> <<>>,
         apiUrl |-> Str(DefaultApiUrl(ver)),
         apiKey |-> IF loaded THEN Get(config, "apiKey") ELSE key0,
         agentId |-> IF loaded THEN Get(config, "agentId") ELSE Get(opts, "agentId"),
         persistConfig |-> persist,
         userAgent |-> Str("prior-mcp/" \o ver),
         reads |-> IF consult THEN 1 ELSE 0]

\* new PriorApiClient(opts) under process.env = e with the config file d.
\* state is "threw" when the constructor throws (0.5.0 only) and the fields
\* are then those assigned before the throw; reads counts loadConfig calls.
Constructor(ver, opts, e, d) ==
    LET apiUrl == Or(Or(Get(opts, "apiUrl"), Get(e, "PRIOR_API_URL")), Str(DefaultApiUrl(ver)))
        key0 == Or(Get(opts, "apiKey"), Get(e, "PRIOR_API_KEY"))
        id0 == Get(opts, "agentId")
        persist == Coalesce(Get(opts, "persistConfig"), Bool(TRUE))
        userAgent == Or(Get(opts, "userAgent"), Str("prior-mcp/" \o ver))
        consult == ~Truthy(key0) /\ Truthy(persist)
        config == IF consult THEN loadConfig(d) ELSE Null
        loaded == consult /\ Truthy(config)
        key1 == IF loaded THEN Get(config, "apiKey") ELSE key0
        id1 == IF loaded THEN Get(config, "agentId") ELSE id0
        throws == ver = "0.5.0" /\ ~Truthy(key1)
    IN  [state |-> IF throws THEN "threw" ELSE "ready",
         error |-> IF throws THEN NoKeyError ELSE <<>>,
         apiUrl |-> apiUrl,
         apiKey |-> key1,
         agentId |-> id1,
         persistConfig |-> persist,
         userAgent |-> userAgent,
         reads |-> IF consult THEN 1 ELSE 0]

\* the 0.1.0 server has no client object: API_URL and API_KEY are read from
\* the environment when the module loads
ModuleLoad010(e) ==
    [state |-> "ready",
     error |-> <<>>,
     apiUrl |-> Or(Get(e, "PRIOR_API_URL"), Str(DefaultApiUrl("0.1.0"))),
     apiKey |-> Get(e, "PRIOR_API_KEY"),
     agentId |-> Undefined,
     persistConfig |-> Bool(FALSE),
     userAgent |-> Undefined,
     reads |-> 0]

\* the 0.2.1 server has no client object: API_URL, apiKey and agentId are
\* module variables, set from the environment and then from the config file
ModuleLoad021(e, d) ==
    LET key0 == Get(e, "PRIOR_API_KEY")
        consult == ~Truthy(key0)
        config == IF consult THEN loadConfig(d) ELSE Null
        loaded == consult /\ Truthy(config)
    IN  [state |-> "ready",
         error |-> <<>>,
         apiUrl |-> Or(Get(e, "PRIOR_API_URL"), Str(DefaultApiUrl("0.2.1"))),
         apiKey |-> IF loaded THEN Get(config, "apiKey") ELSE key0,
         agentId |-> IF loaded THEN Get(config, "agentId") ELSE Undefined,
         persistConfig |-> Bool(TRUE),
         userAgent |-> Str("prior-mcp/0.2.1"),
         reads |-> IF consult THEN 1 ELSE 0]

Unbuilt ==
    [state |-> "unbuilt", error |-> <<>>, apiUrl |-> Undefined, apiKey |-> Undefined,
     agentId |-> Undefined, persistConfig |-> Undefined, userAgent |-> Undefined,
     reads |-> 0]

\* the arguments request() hands to fetch (0.5.0 and 0.3.0)
FetchArgs(c, method, path, body, key) ==
    LET k == Or(key, c.apiKey)
    IN  [url |-> ToText(c.apiUrl) \o path,
         method |-> method,
         headers |->
            (IF Truthy(k) THEN << <<"Authorization", <<T("Bearer ")>> \o ToText(k)>> >> ELSE <<>>)
            \o << <<"Content-Type", <<T("application/json")>> >>,
                  <<"User-Agent", ToText(c.userAgent)>> >>,
         body |-> IF Truthy(body) THEN JSONstringify(body) ELSE JSONstringify(Undefined)]

\* the arguments apiRequest() of the 0.1.0 server hands to fetch; it is
\* called only with API_KEY set
FetchArgs010(c, method, path, body) ==
    [url |-> ToText(c.apiUrl) \o path,
     method |-> method,
     headers |->
        << <<"Authorization", <<T("Bearer ")>> \o ToText(c.apiKey)>>,
           <<"Content-Type", <<T("application/json")>> >> >>,
     body |-> IF Truthy(body) THEN JSONstringify(body) ELSE JSONstringify(Undefined)]

\* as Settle, but the body of a failure response is parsed and returned
SettleIgnoringStatus(res) ==
    [kind |-> "return",
     error |-> <<>>,
     value |-> IF JSONparse(res.text).ok THEN JSONparse(res.text).value
               ELSE RawStr(res.text),
     parses |-> 1]

\* as Settle, but a body that is not JSON makes the call fail
SettleStrictJson(res) ==
    IF ~(200 <= res.status /\ res.status <= 299) \/ ~JSONparse(res.text).ok
    THEN [kind |-> "throw",
          error |-> <<T("API error "), N(res.status), T(": ")>> \o res.text,
          value |-> Undefined,
          parses |-> IF 200 <= res.status /\ res.status <= 299 THEN 1 ELSE 0]
    ELSE [kind |-> "return", error |-> <<>>, value |-> JSONparse(res.text).value, parses |-> 1]

\* Response.ok
ResOk(res) == 200 <= res.status /\ res.status <= 299

\* what request() does with the response: throws Error(`API error ${status}: ${text}`)
\* or returns JSON.parse(text), or text when JSON.parse throws.
\* parses counts the JSON.parse calls made.
Settle(res) ==
    IF ~ResOk(res)
    THEN [kind |-> "throw",
          error |-> <<T("API error "), N(res.status), T(": ")>> \o res.text,
          value |-> Undefined,
          parses |-> 0]
    ELSE [kind |-> "return",
          error |-> <<>>,
          value |-> IF JSONparse(res.text).ok THEN JSONparse(res.text).value
                    ELSE RawStr(res.text),
          parses |-> 1]


-----------------------------------------------------------------------------
(* Result shaping: src/src/utils.ts *)

\* Array.prototype.join(sep): null and undefined elements give ""
Join(items, sep) ==
    Concat([i \in 1..Len(items) |->
        (IF IsNullish(items[i]) THEN <<>> ELSE ToText(items[i]))
        \o (IF i < Len(items) THEN <<T(sep)>> ELSE <<>>)])

\* the template appended to the JSON text, with ${topId} and ${ids} filled in
NudgeBlock(topId, ids) ==
    <<NL(0), NL(0), T("---"), NL(0),
      T("You already paid 1 credit for this search. Get it back - call prior_feedback with ONE of:"),
      NL(0), T("  worked: prior_feedback(entryId=\"")>>
    \o ToText(topId)
    \o <<T("\", outcome=\"useful\")"), NL(0), T("  didn't work: prior_feedback(entryId=\"")>>
    \o ToText(topId)
    \o <<T("\", outcome=\"not_useful\", reason=\"describe why\")"), NL(0),
         T("  wrong result: prior_feedback(entryId=\"")>>
    \o ToText(topId)
    \o <<T("\", outcome=\"irrelevant\")"), NL(0), T("All result IDs: ")>>
    \o ids

\* what `'id' in x` throws when x is not an object
InTypeError == <<T("TypeError: Cannot use 'in' operator to search for 'id' in ")>>

\* as formatResults, but the envelope is not unwrapped: results is read
\* from the argument itself
formatResultsNoUnwrap(data) ==
    LET json == JSONstringify(data)
        results == OptGet(data, "results")
        plain == [kind |-> "return", defined |-> json.defined, text |-> json.text]
    IN  IF Truthy(results) /\ results.t = "array" /\ Len(results.v) > 0
        THEN LET topResult == results.v[1]
                 topId == OptGet(topResult, "id")
             IN  IF ~Truthy(topResult) THEN plain
                 ELSE IF topResult.t \notin {"object", "array"}
                 THEN [kind |-> "throw", defined |-> FALSE,
                       text |-> InTypeError \o ToText(topResult)]
                 ELSE IF /\ HasKey(topResult, "id")
                         /\ topId.t # "null"
                         /\ topId.t # "undefined"
                         /\ ~(topId.t = "string" /\ topId.v = "")
                 THEN [kind |-> "return", defined |-> TRUE,
                       text |-> json.text \o NudgeBlock(topId,
                                   Join([i \in 1..Len(results.v) |->
                                            Or(OptGet(results.v[i], "id"), Str(""))], ", "))]
                 ELSE plain
        ELSE plain

\* formatResults(data): [kind, defined, text]; kind "throw" is the TypeError
\* of `in` on a truthy primitive, defined = FALSE with kind "return" is the
\* undefined that JSON.stringify(undefined) gives
formatResults(data) ==
    LET json == JSONstringify(data)
        d == data
        inner == Or(OptGet(d, "data"), d)
        results == OptGet(inner, "results")
        plain == [kind |-> "return", defined |-> json.defined, text |-> json.text]
    IN  IF Truthy(results) /\ results.t = "array" /\ Len(results.v) > 0
        THEN LET topResult == results.v[1]
                 topId == OptGet(topResult, "id")
             IN  IF ~Truthy(topResult) THEN plain
                 ELSE IF topResult.t \notin {"object", "array"}
                 THEN [kind |-> "throw", defined |-> FALSE,
                       text |-> InTypeError \o ToText(topResult)]
                 ELSE IF /\ HasKey(topResult, "id")
                         /\ topId.t # "null"
                         /\ topId.t # "undefined"
                         /\ ~(topId.t = "string" /\ topId.v = "")
                 THEN [kind |-> "return", defined |-> TRUE,
                       text |-> json.text \o NudgeBlock(topId,
                                   Join([i \in 1..Len(results.v) |->
                                            Or(OptGet(results.v[i], "id"), Str(""))], ", "))]
                 ELSE plain
        ELSE plain

-----------------------------------------------------------------------------
(* Nudge tokens: src/src/tools.ts *)

\* A message is a text of atoms: "[", "]", " " and runs of characters that
\* hold no bracket.  The runs are chosen so that no two sequences of atoms
\* spell the same string.
Atoms(strs) == [i \in 1..Len(strs) |-> T(strs[i])]

TokContribute == Atoms(<<"[", "PRIOR:CONTRIBUTE", "]">>)
TokUseful == Atoms(<<"[", "PRIOR:FEEDBACK", ":useful", "]">>)
TokNotUseful == Atoms(<<"[", "PRIOR:FEEDBACK", ":not_useful", "]">>)
TokIrrelevant == Atoms(<<"[", "PRIOR:FEEDBACK", ":irrelevant", "]">>)
TokFeedback == Atoms(<<"[", "PRIOR:FEEDBACK", "]">>)
TokStatus == Atoms(<<"[", "PRIOR:STATUS", "]">>)
\* the start of [PRIOR:CONTRIBUTE <attrs>]
TokContributeOpen == Atoms(<<"[", "PRIOR:CONTRIBUTE", " ">>)

\* the hints; their backquotes are written ' here
HintContribute == Atoms(<<"'prior_contribute(", "...", ")'">>)
HintUseful == Atoms(<<"'prior_feedback(entryId: \"...\", outcome: \"useful\")'">>)
HintNotUseful == Atoms(<<"'prior_feedback(entryId: \"...\", outcome: \"not_useful\", reason: \"...\")'">>)
HintIrrelevant == Atoms(<<"'prior_feedback(entryId: \"...\", outcome: \"irrelevant\")'">>)
HintFeedback == Atoms(<<"'prior_feedback(...)'">>)
HintStatus == Atoms(<<"'prior_status()'">>)
HintContributeWith(attrs) == <<T("'prior_contribute(")>> \o attrs \o <<T(")'")>>

\* msg.replace(/pat/g, rep) for a literal pattern
RECURSIVE ReplaceAll(_, _, _)
ReplaceAll(msg, pat, rep) ==
    IF Len(msg) < Len(pat) THEN msg
    ELSE IF SubSeq(msg, 1, Len(pat)) = pat
    THEN rep \o ReplaceAll(SubSeq(msg, Len(pat) + 1, Len(msg)), pat, rep)
    ELSE <<Head(msg)>> \o ReplaceAll(Tail(msg), pat, rep)

\* the index of the first "]" of msg from i on, 0 when there is none
FirstClose(msg, i) ==
    LET closes == {j \in i..Len(msg) : msg[j] = T("]")}
    IN  IF closes = {} THEN 0 ELSE CHOOSE j \in closes : \A m \in closes : j <= m

\* msg.replace(/\[PRIOR:CONTRIBUTE ([^\]]+)\]/g, ...): attrs runs to the
\* first "]" and is not empty
RECURSIVE ReplaceContributeWith(_)
ReplaceContributeWith(msg) ==
    IF msg = <<>> THEN msg
    ELSE IF /\ Len(msg) >= Len(TokContributeOpen)
            /\ SubSeq(msg, 1, Len(TokContributeOpen)) = TokContributeOpen
            /\ FirstClose(msg, Len(TokContributeOpen) + 1) > Len(TokContributeOpen) + 1
    THEN LET close == FirstClose(msg, Len(TokContributeOpen) + 1)
         IN  HintContributeWith(SubSeq(msg, Len(TokContributeOpen) + 1, close - 1))
             \o ReplaceContributeWith(SubSeq(msg, close + 1, Len(msg)))
    ELSE <<Head(msg)>> \o ReplaceContributeWith(Tail(msg))

\* expandNudgeTokens(message): the seven replacements, in the source's order
expandNudgeTokens(message) ==
    LET m1 == ReplaceAll(message, TokContribute, HintContribute)
        m2 == ReplaceAll(m1, TokUseful, HintUseful)
        m3 == ReplaceAll(m2, TokNotUseful, HintNotUseful)
        m4 == ReplaceAll(m3, TokIrrelevant, HintIrrelevant)
        m5 == ReplaceAll(m4, TokFeedback, HintFeedback)
        m6 == ReplaceAll(m5, TokStatus, HintStatus)
    IN  ReplaceContributeWith(m6)

-----------------------------------------------------------------------------
(* The prior_search tool: src/src/tools.ts *)

\* as detectHost, but asking for vscode before cursor
detectHostVscodeFirst(e) ==
    IF Truthy(Get(e, "VSCODE_PID")) \/ Truthy(Get(e, "VSCODE_CWD")) THEN "vscode"
    ELSE IF Truthy(Get(e, "CURSOR_TRACE_ID")) \/ Truthy(Get(e, "CURSOR_SESSION")) THEN "cursor"
    ELSE IF Truthy(Get(e, "WINDSURF_SESSION")) THEN "windsurf"
    ELSE IF Truthy(Get(e, "OPENCLAW_SESSION")) THEN "openclaw"
    ELSE "unknown"

\* detectHost() under process.env = e
detectHost(e) ==
    IF Truthy(Get(e, "CURSOR_TRACE_ID")) \/ Truthy(Get(e, "CURSOR_SESSION")) THEN "cursor"
    ELSE IF Truthy(Get(e, "VSCODE_PID")) \/ Truthy(Get(e, "VSCODE_CWD")) THEN "vscode"
    ELSE IF Truthy(Get(e, "WINDSURF_SESSION")) THEN "windsurf"
    ELSE IF Truthy(Get(e, "OPENCLAW_SESSION")) THEN "openclaw"
    ELSE "unknown"

\* the request body the handler builds from the tool arguments
SearchBody(args, e) ==
    LET ctx0 == Or(Get(args, "context"), Obj(<<>>))
        ctx == IF ~Truthy(Get(ctx0, "runtime"))
               THEN Obj(SetKey(ctx0.v, "runtime", Str(detectHost(e))))
               ELSE ctx0
        b0 == << <<"query", Get(args, "query")>>, <<"context", ctx>> >>
        b1 == IF Truthy(Get(args, "maxResults"))
              THEN SetKey(b0, "maxResults", Get(args, "maxResults")) ELSE b0
        b2 == IF Truthy(Get(args, "maxTokens"))
              THEN SetKey(b1, "maxTokens", Get(args, "maxTokens")) ELSE b1
        b3 == IF Get(args, "minQuality").t # "undefined"
              THEN SetKey(b2, "minQuality", Get(args, "minQuality")) ELSE b2
    IN  Obj(b3)

\* the three pre-built prior_feedback parameter objects of a result r
FeedbackActions(r) ==
    Obj(<< <<"useful", Obj(<< <<"entryId", Get(r, "id")>>, <<"outcome", Str("useful")>> >>)>>,
           <<"not_useful", Obj(<< <<"entryId", Get(r, "id")>>,
                                  <<"outcome", Str("not_useful")>>,
                                  <<"reason", Str("")>> >>)>>,
           <<"irrelevant", Obj(<< <<"entryId", Get(r, "id")>>,
                                  <<"outcome", Str("irrelevant")>> >>)>> >>)

\* as StructuredResult, but with tags defaulting to an empty list
StructuredResultDefaultTags(r) ==
    Obj(<< <<"id", Or(Get(r, "id"), Str(""))>>,
           <<"title", Or(Get(r, "title"), Str(""))>>,
           <<"content", Or(Get(r, "content"), Str(""))>>,
           <<"tags", Or(Get(r, "tags"), Arr(<<>>))>>,
           <<"qualityScore", Get(r, "qualityScore")>>,
           <<"relevanceScore", Get(r, "relevanceScore")>>,
           <<"failedApproaches", Get(r, "failedApproaches")>>,
           <<"feedbackActions", FeedbackActions(r)>> >>)

\* one element of structuredResults, for a raw result r that is not null
StructuredResult(r) ==
    Obj(<< <<"id", Or(Get(r, "id"), Str(""))>>,
           <<"title", Or(Get(r, "title"), Str(""))>>,
           <<"content", Or(Get(r, "content"), Str(""))>>,
           <<"tags", Get(r, "tags")>>,
           <<"qualityScore", Get(r, "qualityScore")>>,
           <<"relevanceScore", Get(r, "relevanceScore")>>,
           <<"failedApproaches", Get(r, "failedApproaches")>>,
           <<"feedbackActions", FeedbackActions(r)>> >>)

\* one element of the nudge's previousResults
PreviousResult(r) ==
    Obj(<< <<"id", Get(r, "id")>>, <<"title", Get(r, "title")>>,
           <<"feedbackActions", FeedbackActions(r)>> >>)

\* x.map(f) throws a TypeError unless x is an array, and f throws one on a
\* null or undefined element, whose properties it reads
MapThrows(x) ==
    \/ x.t # "array"
    \/ \E i \in 1..Len(x.v) : IsNullish(x.v[i])

HandlerThrew(error) ==
    [kind |-> "throw", error |-> error, structuredContent |-> Undefined, text |-> <<>>]

\* the handler from the value request() returned on: [kind, error,
\* structuredContent, text].  The light bulb of the nudge line is written *
\* and the arrow of a previous-result line ->.
SearchResult(data) ==
    LET rawResults == Or(OptGet(data, "results"),
                         Or(OptGet(OptGet(data, "data"), "results"), Arr(<<>>)))
        searchId == Or(OptGet(data, "searchId"), OptGet(OptGet(data, "data"), "searchId"))
        formatted == formatResults(data)
        rawData == Or(OptGet(data, "data"), data)
        prompt0 == OptGet(rawData, "contributionPrompt")
        contributionPrompt ==
            IF Truthy(prompt0)
            THEN RawStr(ToText(prompt0) \o <<T(" Use 'prior_contribute' to save your solution.")>>)
            ELSE prompt0
        agentHint == OptGet(rawData, "agentHint")
        doNotTry == OptGet(rawData, "doNotTry")
        rawNudge == OptGet(rawData, "nudge")
        message == OptGet(rawNudge, "message")
        context == Get(rawNudge, "context")
        prev == OptGet(context, "previousResults")
        expandedMessage == expandNudgeTokens(ToText(message))
        previousResults ==
            IF IsNullish(prev) THEN Undefined
            ELSE Arr([i \in 1..Len(prev.v) |-> PreviousResult(prev.v[i])])
        hasPrevious == previousResults.t = "array" /\ Len(previousResults.v) > 0
        nudge ==
            Obj(<< <<"kind", Or(Get(rawNudge, "kind"), Str(""))>>,
                   <<"template", Or(Get(rawNudge, "template"), Str(""))>>,
                   <<"message", RawStr(expandedMessage)>>,
                   <<"context", context>> >>
                \o (IF hasPrevious THEN << <<"previousResults", previousResults>> >> ELSE <<>>))
        nudgeText ==
            <<NL(0), NL(0), T("* ")>> \o expandedMessage
            \o (IF hasPrevious
                THEN <<NL(2), T("Previous results:")>>
                     \o Concat([i \in 1..Len(previousResults.v) |->
                            <<NL(4), T("- \"")>>
                            \o ToText(Get(previousResults.v[i], "title"))
                            \o <<T("\" -> prior_feedback(entryId: \"")>>
                            \o ToText(Get(previousResults.v[i], "id"))
                            \o <<T("\", outcome: \"useful\")")>>])
                ELSE <<>>)
    IN  IF MapThrows(rawResults)
        THEN HandlerThrew(<<T("TypeError: rawResults.map")>>)
        ELSE IF formatted.kind = "throw" THEN HandlerThrew(formatted.text)
        ELSE IF Truthy(message) /\ message.t \notin {"string", "rawstring"}
        THEN HandlerThrew(<<T("TypeError: rawNudge.message.replace is not a function")>>)
        ELSE IF Truthy(message) /\ ~IsNullish(prev) /\ MapThrows(prev)
        THEN HandlerThrew(<<T("TypeError: previousResults.map")>>)
        ELSE [kind |-> "return",
              error |-> <<>>,
              structuredContent |->
                  Obj(<< <<"results", Arr([i \in 1..Len(rawResults.v) |->
                                              StructuredResult(rawResults.v[i])])>>,
                         <<"searchId", searchId>>,
                         <<"creditsUsed",
                           Or(Or(OptGet(data, "creditsUsed"),
                                 OptGet(OptGet(data, "data"), "creditsUsed")), Num(1))>>,
                         <<"contributionPrompt", Or(contributionPrompt, Undefined)>>,
                         <<"agentHint", Or(agentHint, Undefined)>>,
                         <<"doNotTry", Or(doNotTry, Undefined)>>,
                         <<"nudge", IF Truthy(message) THEN nudge ELSE Undefined>> >>),
              text |-> formatted.text \o (IF Truthy(message) THEN nudgeText ELSE <<>>)]

-----------------------------------------------------------------------------
(* Bounds and inputs *)

MaxCalls == 2       \* request() calls per behaviour
MaxTextLen == 3     \* tokens in a response body

MkOptions(apiKey, agentId, persistConfig) ==
    Obj(<< <<"apiKey", apiKey>>, <<"agentId", agentId>>, <<"persistConfig", persistConfig>> >>)

MkEnv(apiKey) == Obj(<< <<"PRIOR_API_KEY", apiKey>> >>)

MkConfig(apiKey, agentId) == Obj(<< <<"apiKey", apiKey>>, <<"agentId", agentId>> >>)

NoFile == [readable |-> FALSE, text |-> <<>>]

\* the config file: missing or unreadable, cut short, null, without apiKey,
\* with an empty apiKey, with an agentId only, and as saveConfig writes it
DiskChoices ==
    { NoFile,
      [readable |-> TRUE, text |-> <<P("{"), NL(2), S("apiKey"), P(":")>>],
      [readable |-> TRUE, text |-> <<L("null")>>],
      [readable |-> TRUE, text |-> <<P("{"), P("}")>>],
      saveConfig(MkConfig(Str(""), Str("a_file"))),
      saveConfig(MkConfig(Undefined, Str("a_file"))),
      saveConfig(MkConfig(Str("k_file"), Str("a_file"))) }

Endpoint == [method |-> "GET", path |-> <<T("/v1/agents/me")>>, body |-> Undefined]

OverrideKeys == {Undefined, Str(""), Str("k_call")}

Statuses == {200, 404, 500}

BodyTokens == {P("{"), P("}"), S("ok"), N(1), T("oops")}

Bodies(n) == UNION {[1..m -> BodyTokens] : m \in 0..n}

MaxResults == 3     \* elements of a results array
MaxWrap == 1        \* envelopes around a payload

\* elements of a results array: entries with a usable id, with an empty,
\* null, undefined, missing, zero or numeric id, and non-entries
ResultChoices ==
    { Obj(<< <<"id", Str("k1")>> >>), Obj(<< <<"id", Str("k2")>> >>),
      Obj(<< <<"id", Str("")>> >>), Obj(<< <<"id", Null>> >>),
      Obj(<< <<"id", Undefined>> >>), Obj(<< <<"title", Str("T")>> >>),
      Obj(<< <<"id", Num(0)>> >>), Obj(<< <<"id", Num(123)>> >>),
      Null, Str("abc"), Num(5) }

ResultLists(n) == UNION {[1..m -> ResultChoices] : m \in 0..n}

\* payloads without an envelope
Payloads(n) ==
    {Obj(<< <<"results", Arr(r)>> >>) : r \in ResultLists(n)}
    \cup {Obj(<< <<"results", x>> >>) : x \in {Null, Str("k1"), Num(3), Obj(<< <<"id", Str("k1")>> >>)}}
    \cup {Obj(<< <<"results", Arr(<<Obj(<< <<"id", Str("k1")>> >>)>>)>>, <<"data", Null>> >>),
          Obj(<< <<"message", Str("m")>> >>), Obj(<<>>), Arr(<<>>),
          Null, Undefined, Str("abc"), Num(5)}

\* the backend's envelope around a payload
Envelope(payload) ==
    Obj(<< <<"ok", Bool(TRUE)>>, <<"data", payload>>, <<"error", Null>> >>)

RECURSIVE WrapDepth(_)
WrapDepth(x) == IF HasKey(x, "ok") THEN 1 + WrapDepth(Get(x, "data")) ELSE 0

MaxSegments == 3    \* pieces a message is put together from

\* pieces of a message: the tokens, an opened [PRIOR:CONTRIBUTE, a closing
\* bracket, plain text and bracketed text outside the vocabulary
Segments ==
    { TokContribute, TokUseful, TokNotUseful, TokIrrelevant, TokFeedback, TokStatus,
      TokContributeOpen \o Atoms(<<"x", "]">>),
      TokContributeOpen, Atoms(<<"]">>), Atoms(<<"x">>), Atoms(<<"[", "x", "]">>) }

Messages(n) == {Concat(segs) : segs \in UNION {[1..m -> Segments] : m \in 0..n}}

MaxHits == 2        \* results in a search response
MaxSearches == 1    \* prior_search calls per behaviour

\* raw results: a full entry, a short one, one without id, with an empty
\* and a zero id, and a null in place of an entry
SearchHits ==
    { Obj(<< <<"id", Str("k1")>>, <<"title", Str("T1")>>, <<"content", Str("c1")>>,
             <<"tags", Arr(<<Str("ts")>>)>>, <<"qualityScore", Num(1)>> >>),
      Obj(<< <<"id", Str("k2")>>, <<"title", Str("T2")>> >>),
      Obj(<< <<"title", Str("T3")>> >>),
      Obj(<< <<"id", Str("")>> >>), Obj(<< <<"id", Num(0)>> >>),
      Null }

\* what a search payload holds besides its results
SearchExtras ==
    { <<>>,
      << <<"searchId", Str("s1")>>, <<"creditsUsed", Num(2)>>,
         <<"contributionPrompt", Str("cp")>>, <<"agentHint", Str("h")>>,
         <<"doNotTry", Arr(<<Str("d")>>)>> >>,
      << <<"nudge", Obj(<< <<"kind", Str("feedback")>>,
                           <<"message", RawStr(Atoms(<<"x", " ">>) \o TokFeedback)>>,
                           <<"context", Obj(<< <<"previousResults",
                                 Arr(<<Obj(<< <<"id", Str("p1")>>, <<"title", Str("PT")>> >>)>>)>> >>)>> >>)>> >> }

SearchPayloads(n) ==
    {Obj(<< <<"results", Arr(r)>> >>) : r \in UNION {[1..m -> SearchHits] : m \in 0..n}}
    \cup {Obj(<< <<"results", Arr(<<Obj(<< <<"id", Str("k1")>>, <<"title", Str("T1")>> >>)>>)>> >>
               \o x) : x \in SearchExtras}
    \cup {Obj(<< <<"results", Str("k1")>> >>), Obj(<< <<"message", Str("m")>> >>), Null}

\* payloads beside the regular ones: an entry with a field the handler
\* does not name, a free search without results, and results at both
\* levels of the response (the top-level list empty, or not)
OddPayloads ==
    { Obj(<< <<"results", Arr(<<Obj(<< <<"id", Str("k1")>>, <<"title", Str("T1")>>,
                                       <<"trustLevel", Str("community")>> >>)>>)>> >>),
      Obj(<< <<"results", Arr(<<>>)>>, <<"creditsUsed", Num(0)>> >>),
      Obj(<< <<"results", Arr(<<>>)>>,
             <<"data", Obj(<< <<"results", Arr(<<Obj(<< <<"id", Str("k1")>> >>)>>)>> >>)>> >>),
      Obj(<< <<"results", Arr(<<Obj(<< <<"id", Str("k2")>> >>)>>)>>,
             <<"data", Obj(<< <<"results", Arr(<<Obj(<< <<"id", Str("k1")>> >>)>>)>> >>)>> >>) }

\* the responses to a search: payloads bare and enveloped, a body that is
\* not JSON, and a failure
SearchResponses(n) ==
    {[status |-> 200, text |-> Serialize(p, 0)] : p \in SearchPayloads(n) \cup OddPayloads}
    \cup {[status |-> 200, text |-> Serialize(Envelope(p), 0)] : p \in SearchPayloads(n)}
    \cup {[status |-> 200, text |-> <<T("oops")>>], [status |-> 500, text |-> <<T("oops")>>]}

SearchResponseSet == SearchResponses(MaxHits)

SearchArgs ==
    { Obj(<< <<"query", Str("q")>> >>),
      Obj(<< <<"query", Str("q")>>, <<"maxResults", Num(3)>>,
             <<"context", Obj(<< <<"runtime", Str("node")>> >>)>> >>) }

\* no invocation yet: which operation, where it stands, what it has done
\* so far (requests sent, reads, writes and removals of the config file)
\* and what it gave back to the host
NoResult == [kind |-> "none", error |-> <<>>, structuredContent |-> Undefined, text |-> <<>>]

\* ensureApiKey() has not returned in this invocation
Pending == [t |-> "pending", v |-> 0]

NoOp ==
    [name |-> "none", pc |-> "idle", args |-> Undefined, key |-> Pending, nets |-> 0,
     reads |-> 0, writes |-> 0, unlinks |-> 0, result |-> NoResult]

\* no saveConfig call yet: which process made it (1 this one, 2 another),
\* the record it was given, and how many requests this process had sent
NoSave == [by |-> 0, config |-> Undefined, sent |-> 0]

NotExpanded == [done |-> FALSE, text |-> <<>>]

NotCalled == [kind |-> "none", defined |-> FALSE, text |-> <<>>]

Idle ==
    [state |-> "idle", sent |-> FALSE, key |-> Undefined, res |-> [status |-> 0, text |-> <<>>],
     outcome |-> [kind |-> "none", error |-> <<>>, value |-> Undefined, parses |-> 0]]

-----------------------------------------------------------------------------
(* Actions *)

\* new PriorApiClient(options), or the module load of the 0.1.0 server
Construct ==
    /\ client.state = "unbuilt"
    /\ LET c == IF variant = "0.1.0" THEN ModuleLoad010(env)
                ELSE IF variant = "0.2.1" THEN ModuleLoad021(env, disk)
                ELSE Constructor(variant, options, env, disk)
       IN  /\ client' = c
           /\ fsReads' = fsReads + c.reads
    /\ UNCHANGED <<variant, options, env, disk, wire, call, fnIn, fnOut, op, backend, saved, inflight>>

\* client.loadConfig()
LoadConfigCall ==
    /\ client.state = "ready"
    /\ variant # "0.1.0"
    /\ fsReads < 2
    /\ fsReads' = fsReads + 1
    /\ UNCHANGED <<variant, options, env, disk, client, wire, call, fnIn, fnOut, op, backend, saved, inflight>>

\* client.saveConfig(config)
SaveConfigCall ==
    /\ client.state = "ready"
    /\ variant # "0.1.0"
    /\ saved' = [by |-> 1, config |-> MkConfig(Str("k_new"), Str("a_new")), sent |-> Len(wire)]
    /\ disk' = saveConfig(saved'.config)
    /\ disk' # disk
    /\ UNCHANGED <<variant, options, env, client, fsReads, wire, call, fnIn, fnOut, op, backend, inflight>>

\* request(method, path, body, key) up to its await of fetch; the 0.1.0
\* apiRequest throws before fetch when API_KEY is not set
RequestFetch(keys) ==
    /\ client.state = "ready"
    /\ call.state # "awaiting"
    /\ Len(wire) < MaxCalls
    /\ \E key \in keys :
          IF variant = "0.1.0"
          THEN /\ key = Undefined
               /\ IF Truthy(client.apiKey)
                  THEN /\ wire' = Append(wire, FetchArgs010(client, Endpoint.method, Endpoint.path, Endpoint.body))
                       /\ call' = [Idle EXCEPT !.state = "awaiting", !.sent = TRUE]
                  ELSE /\ wire' = wire
                       /\ call' = [Idle EXCEPT !.state = "done",
                                     !.outcome = [kind |-> "throw",
                                                  error |-> <<T("PRIOR_API_KEY environment variable is required")>>,
                                                  value |-> Undefined,
                                                  parses |-> 0]]
          ELSE /\ wire' = Append(wire, FetchArgs(client, Endpoint.method, Endpoint.path, Endpoint.body, key))
               /\ call' = [Idle EXCEPT !.state = "awaiting", !.sent = TRUE, !.key = key]
    /\ UNCHANGED <<variant, options, env, disk, client, fsReads, fnIn, fnOut, op, backend, saved, inflight>>

\* as RequestSettle, but sending the request again on 429 and on 5xx
RequestSettleRetry(responses) ==
    /\ call.state = "awaiting"
    /\ \E res \in responses :
          IF res.status = 429 \/ res.status >= 500
          THEN /\ Len(wire) < MaxCalls + 1
               /\ wire' = Append(wire, wire[Len(wire)])
               /\ call' = call
          ELSE /\ wire' = wire
               /\ call' = [call EXCEPT !.state = "done", !.res = res, !.outcome = Settle(res)]
    /\ UNCHANGED <<variant, options, env, disk, client, fsReads, fnIn, fnOut, op, backend, saved, inflight>>

\* request() from the response on
RequestSettle(responses) ==
    /\ call.state = "awaiting"
    /\ \E res \in responses :
          call' = [call EXCEPT !.state = "done", !.res = res, !.outcome = Settle(res)]
    /\ UNCHANGED <<variant, options, env, disk, client, fsReads, wire, fnIn, fnOut, op, backend, saved, inflight>>

\* formatResults(data) on a payload as the API returns it without envelope
FormatBare ==
    /\ fnOut = NotCalled
    /\ fnOut' = formatResults(fnIn)
    /\ UNCHANGED <<variant, options, env, disk, client, fsReads, wire, call, fnIn, op, backend, saved, inflight>>

\* formatResults(data) on the same payload inside the backend's envelope
FormatEnveloped ==
    /\ fnOut # NotCalled
    /\ WrapDepth(fnIn) < MaxWrap
    /\ fnIn' = Envelope(fnIn)
    /\ fnOut' = formatResults(fnIn')
    /\ UNCHANGED <<variant, options, env, disk, client, fsReads, wire, call, op, backend, saved, inflight>>

\* expandNudgeTokens(message)
ExpandNudgeTokens ==
    /\ fnOut = NotExpanded
    /\ fnOut' = [done |-> TRUE, text |-> expandNudgeTokens(fnIn)]
    /\ UNCHANGED <<variant, options, env, disk, client, fsReads, wire, call, fnIn, op, backend, saved, inflight>>

\* the prior_search handler up to its await of client.request
SearchSend ==
    /\ client.state = "ready"
    /\ variant # "0.1.0"
    /\ call.state # "awaiting"
    /\ Len(wire) < MaxSearches
    /\ \E args \in SearchArgs :
          /\ fnIn' = args
          /\ wire' = Append(wire, FetchArgs(client, "POST", <<T("/v1/knowledge/search")>>,
                                            SearchBody(args, env), Undefined))
    /\ call' = [Idle EXCEPT !.state = "awaiting", !.sent = TRUE]
    /\ fnOut' = NotCalled
    /\ UNCHANGED <<variant, options, env, disk, client, fsReads, op, backend, saved, inflight>>

\* the prior_search handler from the response on
SearchSettle(responses) ==
    /\ call.state = "awaiting"
    /\ \E res \in responses :
          LET outcome == Settle(res)
          IN  /\ call' = [call EXCEPT !.state = "done", !.res = res, !.outcome = outcome]
              /\ fnOut' = IF outcome.kind = "throw" THEN HandlerThrew(outcome.error)
                          ELSE SearchResult(outcome.value)
    /\ UNCHANGED <<variant, options, env, disk, client, fsReads, wire, fnIn, op, backend, saved, inflight>>

-----------------------------------------------------------------------------
(* Construction: every combination of option, environment and file *)

InitCtor ==
    /\ variant \in {"0.5.0", "0.3.0"}
    /\ options \in {MkOptions(k, a, p) : k \in {Undefined, Str(""), Str("k_opt")},
                                         a \in {Undefined, Str("a_opt")},
                                         p \in {Undefined, Bool(TRUE), Bool(FALSE)}}
    /\ env \in {MkEnv(k) : k \in {Undefined, Str(""), Str("k_env")}}
    /\ disk \in DiskChoices
    /\ client = Unbuilt
    /\ fsReads = 0
    /\ wire = <<>>
    /\ call = Idle
    /\ fnIn = Undefined
    /\ fnOut = Undefined
    /\ op = NoOp
    /\ backend = "none"
    /\ saved = NoSave
    /\ inflight = <<>>

NextCtor ==
    \/ Construct
    \/ LoadConfigCall
    \/ SaveConfigCall
    \/ RequestFetch({Undefined})
    \/ RequestSettle({[status |-> 200, text |-> <<P("{"), P("}")>>],
                      [status |-> 500, text |-> <<T("oops")>>]})

SpecCtor == InitCtor /\ [][NextCtor]_vars

-----------------------------------------------------------------------------
(* Requests: clients that exist, every key override, every short body *)

InitRequest ==
    /\ variant \in {"0.5.0", "0.3.0", "0.1.0"}
    /\ options \in {MkOptions(k, Undefined, Bool(FALSE)) : k \in {Undefined, Str("k_opt")}}
    /\ env \in {MkEnv(k) : k \in {Undefined, Str("k_env")}}
    /\ (variant = "0.1.0" => options = MkOptions(Undefined, Undefined, Bool(FALSE)))
    /\ (variant # "0.1.0" => (Get(options, "apiKey") = Undefined \/ Get(env, "PRIOR_API_KEY") = Undefined))
    /\ disk = NoFile
    /\ client = Unbuilt
    /\ fsReads = 0
    /\ wire = <<>>
    /\ call = Idle
    /\ fnIn = Undefined
    /\ fnOut = Undefined
    /\ op = NoOp
    /\ backend = "none"
    /\ saved = NoSave
    /\ inflight = <<>>

NextRequest ==
    \/ Construct
    \/ RequestFetch(OverrideKeys)
    \/ RequestSettle([status : Statuses, text : Bodies(MaxTextLen)])

SpecRequest == InitRequest /\ [][NextRequest]_vars

-----------------------------------------------------------------------------
(* Result shaping: every payload, bare and enveloped *)

InitFormat ==
    /\ variant = "0.5.0"
    /\ options = MkOptions(Str("k_opt"), Undefined, Bool(FALSE))
    /\ env = MkEnv(Undefined)
    /\ disk = NoFile
    /\ client = Unbuilt
    /\ fsReads = 0
    /\ wire = <<>>
    /\ call = Idle
    /\ fnIn \in Payloads(MaxResults)
    /\ fnOut = NotCalled
    /\ op = NoOp
    /\ backend = "none"
    /\ saved = NoSave
    /\ inflight = <<>>

NextFormat ==
    \/ FormatBare
    \/ FormatEnveloped

SpecFormat == InitFormat /\ [][NextFormat]_vars

-----------------------------------------------------------------------------
(* Token expansion: every message of a few pieces *)

InitExpand ==
    /\ variant = "0.5.0"
    /\ options = MkOptions(Str("k_opt"), Undefined, Bool(FALSE))
    /\ env = MkEnv(Undefined)
    /\ disk = NoFile
    /\ client = Unbuilt
    /\ fsReads = 0
    /\ wire = <<>>
    /\ call = Idle
    /\ fnIn \in Messages(MaxSegments)
    /\ fnOut = NotExpanded
    /\ op = NoOp
    /\ backend = "none"
    /\ saved = NoSave
    /\ inflight = <<>>

NextExpand == ExpandNudgeTokens

SpecExpand == InitExpand /\ [][NextExpand]_vars

-----------------------------------------------------------------------------
(* Searches: every response of a few results *)

InitSearch ==
    /\ variant = "0.5.0"
    /\ options = MkOptions(Str("k_opt"), Undefined, Bool(FALSE))
    /\ env \in {MkEnv(Undefined),
                Obj(<< <<"PRIOR_API_KEY", Undefined>>, <<"VSCODE_PID", Str("1")>> >>)}
    /\ disk = NoFile
    /\ client = Unbuilt
    /\ fsReads = 0
    /\ wire = <<>>
    /\ call = Idle
    /\ fnIn = Undefined
    /\ fnOut = NotCalled
    /\ op = NoOp
    /\ backend = "none"
    /\ saved = NoSave
    /\ inflight = <<>>

NextSearch ==
    \/ Construct
    \/ SearchSend
    \/ SearchSettle(SearchResponseSet)

SpecSearch == InitSearch /\ [][NextSearch]_vars


-----------------------------------------------------------------------------
(* Claims about construction (SpecCtor) *)

OptKey == Get(options, "apiKey")
EnvKey == Get(env, "PRIOR_API_KEY")
NonEmpty(x) == x.t = "string" /\ x.v # ""
PersistEnabled ==
    ~(Get(options, "persistConfig").t = "boolean" /\ ~Get(options, "persistConfig").v)
\* the apiKey of the persisted record, undefined when the file gives none
FileKey == Get(loadConfig(disk), "apiKey")

\* C1: construction resolves the key by strict precedence: a non-empty
\* apiKey option, else a non-empty PRIOR_API_KEY, else (only with
\* persistConfig on) the apiKey of the config file; the file never replaces
\* an option or environment key and is not read when one of them is given
\* or when persistConfig is false.
C1_KeyPrecedence ==
    [][ (client.state = "unbuilt" /\ client'.state # "unbuilt") =>
          IF NonEmpty(OptKey)
          THEN client'.apiKey = OptKey /\ fsReads' = fsReads
          ELSE IF NonEmpty(EnvKey)
          THEN client'.apiKey = EnvKey /\ fsReads' = fsReads
          ELSE IF PersistEnabled
          THEN IF Truthy(FileKey) THEN client'.apiKey = FileKey
               ELSE ~Truthy(client'.apiKey)
          ELSE ~Truthy(client'.apiKey) /\ fsReads' = fsReads ]_vars

\* a client built from the file's key although PRIOR_API_KEY is set, to ""
C1_Witness ==
    /\ client.state = "ready"
    /\ ~NonEmpty(OptKey)
    /\ EnvKey = Str("")
    /\ client.apiKey = Str("k_file")
    /\ fsReads = 1

\* the file gives no key: missing or unreadable, malformed, or no apiKey
FileUnusable ==
    \/ ~disk.readable
    \/ ~JSONparse(disk.text).ok
    \/ ~Truthy(Get(JSONparse(disk.text).value, "apiKey"))

Names(text, s) == \E i \in 1..Len(text) : text[i] = T(s)

\* C2: the 0.5.0 constructor throws the configuration error, which names
\* PRIOR_API_KEY and ~/.prior/config.json, exactly when no key is
\* resolvable (no option key, no environment key, and persistence off or
\* the file unusable); a constructed client holds a non-empty key for good.
C2_ThrowsIffNoKey ==
    (variant = "0.5.0" /\ client.state # "unbuilt") =>
        /\ (client.state = "ready" => Truthy(client.apiKey))
        /\ (client.state = "threw" =>
                /\ ~NonEmpty(OptKey) /\ ~NonEmpty(EnvKey)
                /\ (~PersistEnabled \/ FileUnusable)
                /\ Names(client.error, "PRIOR_API_KEY")
                /\ Names(client.error, "~/.prior/config.json"))
        /\ ((~NonEmpty(OptKey) /\ ~NonEmpty(EnvKey) /\ (~PersistEnabled \/ FileUnusable))
                => client.state = "threw")

\* persistence on and a file on disk, but it is cut short: construction fails
C2_Witness ==
    /\ variant = "0.5.0"
    /\ client.state = "threw"
    /\ PersistEnabled
    /\ disk.readable
    /\ ~JSONparse(disk.text).ok

-----------------------------------------------------------------------------
(* Claims about request (SpecRequest) *)

Responded == call.state = "done" /\ call.sent
IsSuffix(suffix, text) ==
    /\ Len(suffix) <= Len(text)
    /\ SubSeq(text, Len(text) - Len(suffix) + 1, Len(text)) = suffix

\* C8: on a status outside 200..299 request throws an error that carries
\* the status code and the raw response text; the body is not parsed and
\* no value is returned.
C8_FailureThrows ==
    (Responded /\ call.res.status \notin 200..299) =>
        /\ call.outcome.kind = "throw"
        /\ \E i \in 1..Len(call.outcome.error) : call.outcome.error[i] = N(call.res.status)
        /\ IsSuffix(call.res.text, call.outcome.error)
        /\ call.outcome.parses = 0
        /\ call.outcome.value = Undefined

\* a 404 whose body is valid JSON
C8_Witness ==
    /\ Responded
    /\ call.res = [status |-> 404, text |-> <<P("{"), P("}")>>]
    /\ call.outcome.kind = "throw"

\* C9: on a success status request returns the parsed body when the text
\* is valid JSON and the raw text unchanged otherwise, also for an empty or
\* a cut-short body; a malformed body never makes it throw.
C9_SuccessParsesOrFallsBack ==
    (Responded /\ call.res.status \in 200..299) =>
        /\ call.outcome.kind = "return"
        /\ (JSONparse(call.res.text).ok => call.outcome.value = JSONparse(call.res.text).value)
        /\ (~JSONparse(call.res.text).ok => call.outcome.value = RawStr(call.res.text))
        /\ (call.res.text = <<>> => call.outcome.value = Str(""))
        /\ (call.res.text = <<P("{"), P("}")>> => call.outcome.value = Obj(<<>>))
        /\ (call.res.text = <<P("{"), S("ok")>> =>
                call.outcome.value = RawStr(<<P("{"), S("ok")>>))

\* a 200 whose body is cut short comes back as text
C9_Witness ==
    /\ Responded
    /\ call.res = [status |-> 200, text |-> <<P("{"), S("ok")>>]
    /\ call.outcome.kind = "return"
    /\ call.outcome.value.t = "rawstring"

Header(req, name) ==
    IF \E i \in 1..Len(req.headers) : req.headers[i][1] = name
    THEN req.headers[CHOOSE i \in 1..Len(req.headers) : req.headers[i][1] = name][2]
    ELSE <<>>
HasHeader(req, name) == \E i \in 1..Len(req.headers) : req.headers[i][1] = name

\* C10: every request put on the wire carries a User-Agent header; it
\* carries Authorization exactly when a key is available (the per-call
\* override or the cached key), and then "Bearer " and the override when
\* one is given, the cached key otherwise.
C10_Headers ==
    (call.sent /\ wire # <<>>) =>
        LET req == wire[Len(wire)]
            available == NonEmpty(call.key) \/ NonEmpty(client.apiKey)
            sentKey == IF NonEmpty(call.key) THEN call.key ELSE client.apiKey
        IN  /\ HasHeader(req, "User-Agent")
            /\ Header(req, "User-Agent") # <<>>
            /\ HasHeader(req, "Authorization") <=> available
            /\ available => Header(req, "Authorization") = <<T("Bearer "), T(sentKey.v)>>


-----------------------------------------------------------------------------
(* Claims about formatResults (SpecFormat) *)

Called == fnOut.kind # "none"
\* the payload inside the envelope, the argument itself when there is none
PayloadOf(d) == IF Truthy(Get(d, "data")) THEN Get(d, "data") ELSE d
ResultListOf(d) == Get(PayloadOf(d), "results")
IsNonEmptyArray(x) == x.t = "array" /\ Len(x.v) > 0
\* an id that is there and is not null, undefined or ""
HasUsableId(e) ==
    /\ HasKey(e, "id")
    /\ ~IsNullish(Get(e, "id"))
    /\ ~(Get(e, "id").t = "string" /\ Get(e, "id").v = "")
FirstUsable(d) ==
    IsNonEmptyArray(ResultListOf(d)) /\ HasUsableId(ResultListOf(d).v[1])
\* the id of an element as text, "" when it has none
IdText(e) ==
    IF HasKey(e, "id") /\ ~IsNullish(Get(e, "id")) THEN ToText(Get(e, "id")) ELSE <<>>
ExpectedIds(list) ==
    Concat([i \in 1..Len(list) |->
        IdText(list[i]) \o (IF i < Len(list) THEN <<T(", ")>> ELSE <<>>)])
Separators(text) == {i \in 1..Len(text) : text[i] = T("---")}
\* what a returned text holds after the JSON serialization of its input
Appended(out, in) ==
    SubSeq(out.text, Len(JSONstringify(in).text) + 1, Len(out.text))

\* C3: for a payload whose result list is a non-empty array with a usable
\* id in its first element, formatResults returns the JSON text followed by
\* exactly one nudge block: its three prior_feedback lines carry the first
\* id, and its last line lists the id of every element in order, joined by
\* ", ", with "" where an element has no id.
C3_NudgeBlock ==
    (Called /\ FirstUsable(fnIn)) =>
        /\ fnOut.kind = "return"
        /\ fnOut.text = JSONstringify(fnIn).text
                        \o NudgeBlock(Get(ResultListOf(fnIn).v[1], "id"),
                                      ExpectedIds(ResultListOf(fnIn).v))
        /\ Cardinality(Separators(fnOut.text)) = 1

\* C4: for a payload whose result list is absent, empty or not an array, or
\* whose first element has a null, undefined, empty or no id, formatResults
\* returns exactly the JSON text, whatever the later elements are.
C4_NoNudge ==
    (Called /\ ~FirstUsable(fnIn)) =>
        /\ fnOut.kind = "return"
        /\ fnOut.defined = JSONstringify(fnIn).defined
        /\ fnOut.text = JSONstringify(fnIn).text

\* C5: for the envelope {ok, data: P, error} around a payload P that is not
\* itself an envelope (it has no truthy data of its own), formatResults
\* fails or returns as it does for P and appends the same block after the
\* JSON text; a nudge is only ever built from the results of the payload
\* inside the envelope, and from the argument's own when it has no data.
C5_EnvelopeUnwrapped ==
    /\ [][ (Called /\ fnIn' = Envelope(fnIn) /\ ~Truthy(Get(fnIn, "data"))) =>
             IF fnOut.kind = "throw" THEN fnOut' = fnOut
             ELSE /\ fnOut'.kind = "return"
                  /\ Len(fnOut'.text) >= Len(JSONstringify(fnIn').text)
                  /\ SubSeq(fnOut'.text, 1, Len(JSONstringify(fnIn').text))
                        = JSONstringify(fnIn').text
                  /\ Appended(fnOut', fnIn') = Appended(fnOut, fnIn) ]_vars
    /\ [](Separators(fnOut.text) # {} =>
             /\ IsNonEmptyArray(ResultListOf(fnIn))
             /\ (~HasKey(fnIn, "data") => IsNonEmptyArray(Get(fnIn, "results"))))

\* an enveloped payload whose second entry has no id, shaped with a nudge
C5_Witness ==
    /\ HasKey(fnIn, "ok")
    /\ IsNonEmptyArray(Get(Get(fnIn, "data"), "results"))
    /\ Len(Get(Get(fnIn, "data"), "results").v) = 2
    /\ ~HasKey(Get(Get(fnIn, "data"), "results").v[2], "id")
    /\ fnOut.kind = "return"
    /\ Cardinality(Separators(fnOut.text)) = 1


-----------------------------------------------------------------------------
(* Claims about expandNudgeTokens (SpecExpand) *)

StartsAt(msg, i, pat) ==
    i + Len(pat) - 1 <= Len(msg) /\ SubSeq(msg, i, i + Len(pat) - 1) = pat
\* a token of the vocabulary starts at index i of msg
TokenAt(msg, i) ==
    \/ \E pat \in {TokContribute, TokUseful, TokNotUseful, TokIrrelevant,
                   TokFeedback, TokStatus} : StartsAt(msg, i, pat)
    \/ /\ StartsAt(msg, i, TokContributeOpen)
       /\ \E j \in (i + 4)..Len(msg) :
             /\ msg[j] = T("]")
             /\ \A m \in (i + 3)..(j - 1) : msg[m] # T("]")
HasToken(msg) == \E i \in 1..Len(msg) : TokenAt(msg, i)

\* C6: expandNudgeTokens leaves no token of its vocabulary in its output,
\* whatever the input, and returns an input without tokens, the empty
\* string included, unchanged.
C6_NoTokenRemains ==
    fnOut.done =>
        /\ ~HasToken(fnOut.text)
        /\ (~HasToken(fnIn) => fnOut.text = fnIn)


-----------------------------------------------------------------------------
(* Claims about prior_search (SpecSearch) *)

\* the raw results of a search response, bare or enveloped
RawResultsOf(data) ==
    IF Get(data, "results").t = "array" THEN Get(data, "results").v
    ELSE IF Get(Get(data, "data"), "results").t = "array"
    THEN Get(Get(data, "data"), "results").v
    ELSE <<>>

Keys(o) == [i \in 1..Len(o.v) |-> o.v[i][1]]

\* C7: the structured results of a search hold one entry per raw result,
\* in order, and each entry has exactly the three feedbackActions useful,
\* not_useful (with reason "") and irrelevant, whose entryId are all the id
\* that the same entry reports.
C7_FeedbackActionsCarryOwnId ==
    (call.state = "done" /\ fnOut.kind = "return") =>
        LET raw == RawResultsOf(call.outcome.value)
            entries == Get(fnOut.structuredContent, "results")
        IN  /\ entries.t = "array"
            /\ Len(entries.v) = Len(raw)
            /\ \A i \in 1..Len(entries.v) :
                  LET entry == entries.v[i]
                      actions == Get(entry, "feedbackActions")
                  IN  /\ Get(entry, "title") = Or(Get(raw[i], "title"), Str(""))
                      /\ Keys(actions) = <<"useful", "not_useful", "irrelevant">>
                      /\ Get(Get(actions, "useful"), "entryId") = Get(entry, "id")
                      /\ Get(Get(actions, "not_useful"), "entryId") = Get(entry, "id")
                      /\ Get(Get(actions, "irrelevant"), "entryId") = Get(entry, "id")
                      /\ Get(Get(actions, "useful"), "outcome") = Str("useful")
                      /\ Get(Get(actions, "not_useful"), "outcome") = Str("not_useful")
                      /\ Get(Get(actions, "not_useful"), "reason") = Str("")
                      /\ Get(Get(actions, "irrelevant"), "outcome") = Str("irrelevant")

-----------------------------------------------------------------------------
(* The prior_feedback tool: src/src/tools.ts, and the backend it talks to *)

\* z.enum([...]) of the outcome
FeedbackOutcomes ==
    {"useful", "not_useful", "irrelevant", "correction_verified", "correction_rejected"}

\* the input schema the host's call is validated against before the handler
\* runs: entryId a string, outcome of the enum, reason and notes optional strings
FeedbackSchemaAccepts(args) ==
    /\ Get(args, "entryId").t = "string"
    /\ Get(args, "outcome").t = "string"
    /\ Get(args, "outcome").v \in FeedbackOutcomes
    /\ Get(args, "reason").t \in {"undefined", "string"}
    /\ Get(args, "notes").t \in {"undefined", "string"}

\* what the host gets for arguments the schema refuses
InvalidParams ==
    [kind |-> "invalid", error |-> <<T("MCP error -32602: Invalid arguments for tool prior_feedback")>>,
     structuredContent |-> Undefined, text |-> <<>>]

\* '/v1/knowledge/${entryId}/feedback'
FeedbackPath(args) ==
    <<T("/v1/knowledge/")>> \o ToText(Get(args, "entryId")) \o <<T("/feedback")>>

\* the request body: outcome, and each optional field that is truthy
FeedbackBody(args) ==
    LET opt(k) == IF Truthy(Get(args, k)) THEN << <<k, Get(args, k)>> >> ELSE <<>>
    IN  Obj(<< <<"outcome", Get(args, "outcome")>> >>
            \o opt("reason") \o opt("notes") \o opt("correctionId") \o opt("correction"))

\* as FeedbackResult, but previousOutcome is read from the response itself
\* and not from what its envelope holds
FeedbackResultTopLevel(data) ==
    LET result == Or(OptGet(data, "data"), data)
        formatted == formatResults(data)
    IN  IF formatted.kind = "throw" THEN HandlerThrew(formatted.text)
        ELSE [kind |-> "return",
              error |-> <<>>,
              structuredContent |->
                  Obj(<< <<"ok", Coalesce(OptGet(data, "ok"), Bool(TRUE))>>,
                         <<"creditsRefunded",
                           Or(Or(OptGet(result, "creditsRefunded"), OptGet(result, "creditRefund")),
                              Num(0))>>,
                         <<"previousOutcome", OptGet(data, "previousOutcome")>> >>),
              text |-> formatted.text]

\* the handler from the value request() returned on
FeedbackResult(data) ==
    LET result == Or(OptGet(data, "data"), data)
        formatted == formatResults(data)
    IN  IF formatted.kind = "throw" THEN HandlerThrew(formatted.text)
        ELSE [kind |-> "return",
              error |-> <<>>,
              structuredContent |->
                  Obj(<< <<"ok", Coalesce(OptGet(data, "ok"), Bool(TRUE))>>,
                         <<"creditsRefunded",
                           Or(Or(OptGet(result, "creditsRefunded"), OptGet(result, "creditRefund")),
                              Num(0))>>,
                         <<"previousOutcome", OptGet(result, "previousOutcome")>> >>),
              text |-> formatted.text]

\* The backend's side of POST /v1/knowledge/:id/feedback, as the changelog
\* of 0.2.4 and the test suite's stand-in describe it: not_useful without a
\* reason is refused with 422; anything else is stored in place of what was
\* recorded, and the answer names the outcome it replaced, if any.  The
\* answer comes inside the {ok, data} envelope or bare.
\* Gives the possible [res, recorded] pairs.
BackendFeedback(recorded, body) ==
    IF Get(body, "outcome") = Str("not_useful") /\ ~Truthy(Get(body, "reason"))
    THEN {[res |-> [status |-> 422,
                    text |-> JSONstringify(Obj(<<
                        <<"error", Str("Validation failed")>>,
                        <<"message", Str("outcome \"not_useful\" requires reason field")>>,
                        <<"code", Str("VALIDATION_ERROR")>> >>)).text],
           recorded |-> recorded]}
    ELSE LET answer == Obj(<< <<"creditsRefunded", Num(1)>> >>
                           \o (IF recorded = "none" THEN <<>>
                               ELSE << <<"previousOutcome", Str(recorded)>> >>))
         IN  {[res |-> [status |-> 200, text |-> JSONstringify(a).text],
               recorded |-> Get(body, "outcome").v] :
                 a \in {answer, Obj(<< <<"ok", Bool(TRUE)>>, <<"data", answer>> >>)}}

MaxSubmissions == 3     \* prior_feedback calls per behaviour

\* the arguments of a prior_feedback call, for the one entry k_1
FeedbackArgs ==
    {Obj(<< <<"entryId", Str("k_1")>>, <<"outcome", Str(o)>>, <<"reason", r>> >>) :
        o \in {"useful", "not_useful", "irrelevant", "helpful"},
        r \in {Undefined, Str(""), Str("outdated")}}

\* a call of prior_feedback up to its await of client.request; a call the
\* schema refuses ends here
FeedbackCall ==
    /\ client.state = "ready"
    /\ op.pc # "awaiting"
    /\ Len(wire) < MaxSubmissions
    /\ \E args \in FeedbackArgs :
          IF FeedbackSchemaAccepts(args)
          THEN /\ wire' = Append(wire, FetchArgs(client, "POST", FeedbackPath(args),
                                                 FeedbackBody(args), Undefined))
               /\ call' = [Idle EXCEPT !.state = "awaiting", !.sent = TRUE]
               /\ op' = [NoOp EXCEPT !.name = "prior_feedback", !.pc = "awaiting",
                                     !.args = args, !.nets = 1]
          ELSE /\ wire' = wire
               /\ call' = Idle
               /\ op' = [NoOp EXCEPT !.name = "prior_feedback", !.pc = "done",
                                     !.args = args, !.result = InvalidParams]
    /\ UNCHANGED <<variant, options, env, disk, client, fsReads, fnIn, fnOut, backend, saved, inflight>>

\* the backend's answer and the handler from there on
FeedbackSettle ==
    /\ op.name = "prior_feedback"
    /\ op.pc = "awaiting"
    /\ \E b \in BackendFeedback(backend, FeedbackBody(op.args)) :
          LET outcome == Settle(b.res)
          IN  /\ backend' = b.recorded
              /\ call' = [call EXCEPT !.state = "done", !.res = b.res, !.outcome = outcome]
              /\ op' = [op EXCEPT !.pc = "done",
                                  !.result = IF outcome.kind = "throw"
                                             THEN HandlerThrew(outcome.error)
                                             ELSE FeedbackResult(outcome.value)]
    /\ UNCHANGED <<variant, options, env, disk, client, fsReads, wire, fnIn, fnOut, saved, inflight>>

InitFeedback ==
    /\ variant = "0.5.0"
    /\ options = MkOptions(Str("k_opt"), Undefined, Bool(FALSE))
    /\ env = MkEnv(Undefined)
    /\ disk = NoFile
    /\ client = Unbuilt
    /\ fsReads = 0
    /\ wire = <<>>
    /\ call = Idle
    /\ fnIn = Undefined
    /\ fnOut = Undefined
    /\ op = NoOp
    /\ backend = "none"
    /\ saved = NoSave
    /\ inflight = <<>>

NextFeedback ==
    \/ Construct
    \/ FeedbackCall
    \/ FeedbackSettle

SpecFeedback == InitFeedback /\ [][NextFeedback]_vars

-----------------------------------------------------------------------------
(* C11, C12: feedback *)

Submitted == Get(op.args, "outcome")

PreviousOutcome(o) == Get(o.result.structuredContent, "previousOutcome")

\* the step in which the backend answers a submission
FeedbackAnswered == op.name = "prior_feedback" /\ op.pc = "awaiting" /\ op'.pc = "done"

\* C11: over any sequence of feedback submissions on one entry, a
\* submission that arrives while an outcome o is recorded, the same outcome
\* included, is answered with success and not refused as a duplicate; the
\* result the host gets names o as previousOutcome and the recorded outcome
\* becomes the submitted one.  The result of a first submission carries no
\* previousOutcome.
C11_ResubmissionUpdates ==
    [][ (FeedbackAnswered /\ call'.res.status # 422) =>
            /\ call'.res.status = 200
            /\ op'.result.kind = "return"
            /\ backend' = Submitted.v
            /\ PreviousOutcome(op') = (IF backend = "none" THEN Undefined ELSE Str(backend)) ]_vars

C11_Witness ==
    /\ op.pc = "done"
    /\ op.result.kind = "return"
    /\ Submitted = Str("useful")
    /\ PreviousOutcome(op) = Str("useful")
    /\ backend = "useful"
    /\ Len(wire) = 2

BodyOf(req) == JSONparse(req.body.text).value

\* C12: a feedback submission with outcome not_useful and no reason is
\* refused before any network call: no request for it is handed to fetch.
C12_NoReasonNoRequest ==
    \A i \in 1..Len(wire) :
        Get(BodyOf(wire[i]), "outcome") = Str("not_useful") => Truthy(Get(BodyOf(wire[i]), "reason"))

-----------------------------------------------------------------------------
(* Auto-registration: ensureApiKey and clearAuth of the 0.3.0 client          *)
(* (src/src/client.ts) and the 0.2.1 server built around the same             *)
(* ensureApiKey (src/src/index.ts)                                            *)

\* fetch rejects: no response at all
NetworkDown == [status |-> 0, text |-> <<T("fetch failed")>>]

\* request() from the await of fetch on: a TypeError when fetch rejects,
\* and Settle on any response
RequestOutcome(res) ==
    IF res = NetworkDown
    THEN [kind |-> "throw", error |-> <<T("TypeError: ")>> \o res.text, value |-> Undefined,
          parses |-> 0]
    ELSE Settle(res)

\* as ensureApiKeyBefore, but looking into the config file before the
\* cached key
ensureApiKeyFileFirst(c, d) ==
    IF Truthy(c.persistConfig) /\ Truthy(loadConfig(d))
    THEN [kind |-> "return",
          value |-> Get(loadConfig(d), "apiKey"),
          apiKey |-> Get(loadConfig(d), "apiKey"),
          agentId |-> Get(loadConfig(d), "agentId"),
          reads |-> 1]
    ELSE IF Truthy(c.apiKey)
    THEN [kind |-> "return", value |-> c.apiKey, apiKey |-> c.apiKey, agentId |-> c.agentId,
          reads |-> IF Truthy(c.persistConfig) THEN 1 ELSE 0]
    ELSE [kind |-> "register", value |-> Undefined, apiKey |-> c.apiKey, agentId |-> c.agentId,
          reads |-> IF Truthy(c.persistConfig) THEN 1 ELSE 0]

\* as ensureApiKeyBefore, but reading the config file once to test it and
\* once more to take the key from it
ensureApiKeyRereads(c, d) ==
    IF Truthy(c.apiKey)
    THEN [kind |-> "return", value |-> c.apiKey, apiKey |-> c.apiKey, agentId |-> c.agentId,
          reads |-> 0]
    ELSE IF Truthy(c.persistConfig) /\ Truthy(loadConfig(d))
    THEN [kind |-> "return",
          value |-> Get(loadConfig(d), "apiKey"),
          apiKey |-> Get(loadConfig(d), "apiKey"),
          agentId |-> Get(loadConfig(d), "agentId"),
          reads |-> 2]
    ELSE [kind |-> "register", value |-> Undefined, apiKey |-> c.apiKey, agentId |-> c.agentId,
          reads |-> IF Truthy(c.persistConfig) THEN 1 ELSE 0]

\* ensureApiKey() up to its await: returns the cached key, or the key of
\* the config file when persistence is on and the file parses to something
\* truthy, or goes on to register.  [kind, value, apiKey, agentId, reads]
ensureApiKeyBefore(c, d) ==
    IF Truthy(c.apiKey)
    THEN [kind |-> "return", value |-> c.apiKey, apiKey |-> c.apiKey, agentId |-> c.agentId,
          reads |-> 0]
    ELSE IF Truthy(c.persistConfig) /\ Truthy(loadConfig(d))
    THEN [kind |-> "return",
          value |-> Get(loadConfig(d), "apiKey"),
          apiKey |-> Get(loadConfig(d), "apiKey"),
          agentId |-> Get(loadConfig(d), "agentId"),
          reads |-> 1]
    ELSE [kind |-> "register", value |-> Undefined, apiKey |-> c.apiKey, agentId |-> c.agentId,
          reads |-> IF Truthy(c.persistConfig) THEN 1 ELSE 0]

\* the body of the registration request
RegisterBody(e) ==
    Obj(<< <<"agentName", Str("prior-mcp-agent")>>, <<"host", Str(detectHost(e))>> >>)

\* as ensureApiKeyAfter, but without the try/catch around the request
ensureApiKeyUncaught(c, outcome) ==
    LET raw == outcome.value
        data == Or(Get(raw, "data"), raw)
        newKey == Or(Or(Get(data, "apiKey"), Get(data, "api_key")), Get(data, "key"))
        newId == Or(Or(Get(data, "agentId"), Get(data, "agent_id")), Get(data, "id"))
    IN  IF outcome.kind = "throw"
        THEN [kind |-> "throw", error |-> outcome.error, value |-> Undefined, apiKey |-> c.apiKey,
              agentId |-> c.agentId, config |-> Undefined, writes |-> 0]
        ELSE IF IsNullish(raw)
        THEN [kind |-> "throw", error |-> <<T("TypeError: Cannot read properties of null")>>,
              value |-> Undefined, apiKey |-> c.apiKey, agentId |-> c.agentId,
              config |-> Undefined, writes |-> 0]
        ELSE IF ~Truthy(newKey)
        THEN [kind |-> "return", error |-> <<>>, value |-> Null, apiKey |-> c.apiKey,
              agentId |-> c.agentId, config |-> Undefined, writes |-> 0]
        ELSE [kind |-> "return", error |-> <<>>, value |-> newKey, apiKey |-> newKey,
              agentId |-> newId,
              config |-> IF Truthy(c.persistConfig) THEN MkConfig(newKey, newId) ELSE Undefined,
              writes |-> IF Truthy(c.persistConfig) THEN 1 ELSE 0]

\* ensureApiKey() from the outcome of its request on.  Everything is inside
\* try/catch: a request that threw, and the TypeError of reading raw.data
\* of null, end in return null.  [kind, error, value, apiKey, agentId,
\* config, writes]: config is the record handed to saveConfig, Undefined
\* when saveConfig is not called
ensureApiKeyAfter(c, outcome) ==
    LET raw == outcome.value
        data == Or(Get(raw, "data"), raw)
        newKey == Or(Or(Get(data, "apiKey"), Get(data, "api_key")), Get(data, "key"))
        newId == Or(Or(Get(data, "agentId"), Get(data, "agent_id")), Get(data, "id"))
    IN  IF outcome.kind = "throw" \/ IsNullish(raw) \/ ~Truthy(newKey)
        THEN [kind |-> "return", error |-> <<>>, value |-> Null, apiKey |-> c.apiKey,
              agentId |-> c.agentId, config |-> Undefined, writes |-> 0]
        ELSE [kind |-> "return", error |-> <<>>, value |-> newKey, apiKey |-> newKey,
              agentId |-> newId,
              config |-> IF Truthy(c.persistConfig) THEN MkConfig(newKey, newId) ELSE Undefined,
              writes |-> IF Truthy(c.persistConfig) THEN 1 ELSE 0]

\* ensureApiKey() when its saveConfig call threw (the directory cannot be
\* made, the file cannot be written): the throw lands in the same catch,
\* after the key was assigned, and the file stays as it was
saveConfigThrew(a) == [a EXCEPT !.value = Null, !.config = Undefined]

\* the ways ensureApiKey may end after its request: as ensureApiKeyAfter
\* has it, and, when it calls saveConfig, with that call throwing
SaveOutcomes(a) == IF a.writes = 1 THEN {a, saveConfigThrew(a)} ELSE {a}

\* the text results of the 0.2.1 server
RegisteredText(id) ==
    <<T("Registered as ")>> \o ToText(Or(id, Str("unknown")))
    \o <<T(". API key saved to ~/.prior/config.json")>>

RegistrationFailedText ==
    <<T("Registration failed. Set PRIOR_API_KEY manually in your MCP server config.")>>

FailedToRegisterText ==
    <<T("Failed to register with Prior. Set PRIOR_API_KEY manually in your MCP server config.")>>

TextResult(text) ==
    [kind |-> "return", error |-> <<>>, structuredContent |-> Undefined, text |-> text]

\* formatResults of the 0.2.1 server: JSON.stringify(data, null, 2)
formatResults021(data) == JSONstringify(data).text

\* the request of each operation to its own endpoint
OwnRequest(name, args, e) ==
    CASE name = "prior_search" ->
            [method |-> "POST", path |-> <<T("/v1/knowledge/search")>>,
             body |-> Obj(<< <<"query", Get(args, "query")>>,
                             <<"context", Or(Get(args, "context"),
                                             Obj(<< <<"runtime", Str(detectHost(e))>> >>))>> >>
                          \o (IF Truthy(Get(args, "maxResults"))
                              THEN << <<"maxResults", Get(args, "maxResults")>> >> ELSE <<>>)
                          \o (IF Truthy(Get(args, "maxTokens"))
                              THEN << <<"maxTokens", Get(args, "maxTokens")>> >> ELSE <<>>)
                          \o (IF Get(args, "minQuality") # Undefined
                              THEN << <<"minQuality", Get(args, "minQuality")>> >> ELSE <<>>))]
      [] name = "prior_get" ->
            [method |-> "GET", path |-> <<T("/v1/knowledge/")>> \o ToText(Get(args, "id")),
             body |-> Undefined]
      [] name = "prior_retract" ->
            [method |-> "DELETE", path |-> <<T("/v1/knowledge/")>> \o ToText(Get(args, "id")),
             body |-> Undefined]

\* as clearAuthDisk, but with the parameter defaulting to true and read as true
clearAuthDiskAlways(d, deleteConfig) == NoFile

\* clearAuth(deleteConfig = false): the file afterwards
clearAuthDisk(d, deleteConfig) ==
    IF Truthy(Coalesce(deleteConfig, Bool(FALSE))) THEN NoFile ELSE d

MaxWire == 4    \* requests handed to fetch per behaviour
MaxReads == 3   \* reads of the config file per behaviour

\* a registration that fails: no response at all, a failure status, and
\* success bodies that hold no key (no such field, an empty one, null, not JSON)
RegistrationFailures ==
    { NetworkDown,
      [status |-> 500, text |-> <<T("oops")>>],
      [status |-> 200, text |-> JSONstringify(Obj(<< <<"ok", Bool(TRUE)>>,
            <<"data", Obj(<< <<"credits", Num(200)>> >>)>> >>)).text],
      [status |-> 200, text |-> JSONstringify(Obj(<< <<"apiKey", Str("")>> >>)).text],
      [status |-> 200, text |-> <<L("null")>>],
      [status |-> 200, text |-> <<T("oops")>>] }

\* a registration that brings a key: enveloped, bare, under another name,
\* without an id
RegistrationSuccesses ==
    { [status |-> 200, text |-> JSONstringify(Obj(<< <<"ok", Bool(TRUE)>>,
            <<"data", MkConfig(Str("k_reg"), Str("a_reg"))>> >>)).text],
      [status |-> 200, text |-> JSONstringify(MkConfig(Str("k_reg"), Str("a_reg"))).text],
      [status |-> 200, text |-> JSONstringify(Obj(<< <<"api_key", Str("k_reg")>>,
                                                     <<"id", Str("a_reg")>> >>)).text],
      [status |-> 200, text |-> JSONstringify(Obj(<< <<"apiKey", Str("k_reg")>> >>)).text] }

RegisterResponses == RegistrationFailures \cup RegistrationSuccesses

\* what an operation's own endpoint may answer
OwnResponses ==
    { NetworkDown,
      [status |-> 429, text |-> <<T("slow down")>>],
      [status |-> 500, text |-> <<T("oops")>>],
      [status |-> 200, text |-> JSONstringify(Obj(<< <<"ok", Bool(TRUE)>>,
            <<"data", Obj(<< <<"id", Str("k_1")>> >>)>> >>)).text] }

OpNames021 == {"prior_register", "prior_search", "prior_get", "prior_retract"}

OpArgs(name) ==
    CASE name = "prior_search" ->
            {Obj(<< <<"query", Str("q")>>, <<"context", Obj(<< <<"runtime", Str("node")>> >>)>> >>)}
      [] name \in {"prior_get", "prior_retract"} -> {Obj(<< <<"id", Str("k_1")>> >>)}
      [] OTHER -> {Obj(<<>>)}

\* the record another process registered under
OtherConfig == MkConfig(Str("k_other"), Str("a_other"))

\* the caller of ensureApiKey from the key it returned on, with c the
\* credentials as ensureApiKey left them and done the request() call that
\* stays the latest when no further request is made
AfterKey(o, key, c, done) ==
    LET o1 == [o EXCEPT !.key = key]
        own == OwnRequest(o.name, o.args, env)
    IN  CASE o.name = "ensureApiKey" ->
                /\ op' = [o1 EXCEPT !.pc = "done", !.result = TextResult(<<>>)]
                /\ wire' = wire
                /\ call' = done
          [] o.name = "prior_register" ->
                /\ op' = [o1 EXCEPT !.pc = "done",
                                   !.result = TextResult(IF Truthy(key)
                                                         THEN RegisteredText(c.agentId)
                                                         ELSE RegistrationFailedText)]
                /\ wire' = wire
                /\ call' = done
          [] OTHER ->
                IF ~Truthy(key)
                THEN /\ op' = [o1 EXCEPT !.pc = "done", !.result = TextResult(FailedToRegisterText)]
                     /\ wire' = wire
                     /\ call' = done
                ELSE /\ op' = [o1 EXCEPT !.pc = "calling", !.nets = @ + 1]
                     /\ wire' = Append(wire, FetchArgs(c, own.method, own.path, own.body, Undefined))
                     /\ call' = [Idle EXCEPT !.state = "awaiting", !.sent = TRUE]

\* as discardCached, but keeping what the process holds
discardCachedNot(c) == c

\* prior_register before its ensureApiKey: apiKey = undefined; agentId =
\* undefined, whatever their origin
discardCached(c) == [c EXCEPT !.apiKey = Undefined, !.agentId = Undefined]

\* an operation from its invocation to its first await or its return:
\* prior_register forgets the credentials and removes the file first;
\* then ensureApiKey answers at once or sends the registration request
OpStart(names) ==
    /\ client.state = "ready"
    /\ op.pc \notin {"registering", "calling"}
    /\ call.state # "awaiting"
    /\ Len(wire) + 2 <= MaxWire
    /\ fsReads < MaxReads
    /\ \E name \in names : \E args \in OpArgs(name) :
          LET fresh == name = "prior_register"
              c0 == IF fresh THEN discardCached(client) ELSE client
              d0 == IF fresh THEN NoFile ELSE disk
              b == ensureApiKeyBefore(c0, d0)
              c1 == [c0 EXCEPT !.apiKey = b.apiKey, !.agentId = b.agentId]
              o0 == [NoOp EXCEPT !.name = name, !.args = args, !.reads = b.reads,
                                 !.unlinks = IF fresh THEN 1 ELSE 0]
          IN  /\ client' = c1
              /\ disk' = d0
              /\ saved' = IF fresh THEN NoSave ELSE saved
              /\ fsReads' = fsReads + b.reads
              /\ IF b.kind = "register"
                 THEN /\ op' = [o0 EXCEPT !.pc = "registering", !.nets = 1]
                      /\ wire' = Append(wire, FetchArgs(c1, "POST", <<T("/v1/agents/register")>>,
                                                        RegisterBody(env), Undefined))
                      /\ call' = [Idle EXCEPT !.state = "awaiting", !.sent = TRUE]
                 ELSE AfterKey(o0, b.value, c1, call)
    /\ UNCHANGED <<variant, options, env, fnIn, fnOut, backend, inflight>>

\* the answer to the registration request, the rest of ensureApiKey and
\* its caller up to the next await or the return
OpRegistered(responses) ==
    /\ op.pc = "registering"
    /\ \E res \in responses :
       \E a \in SaveOutcomes(ensureApiKeyAfter(client, RequestOutcome(res))) :
          LET outcome == RequestOutcome(res)
              c1 == [client EXCEPT !.apiKey = a.apiKey, !.agentId = a.agentId]
              done == [call EXCEPT !.state = "done", !.res = res, !.outcome = outcome]
              o0 == [op EXCEPT !.writes = a.writes]
              written == a.writes = 1 /\ a.config # Undefined
          IN  /\ client' = c1
              /\ disk' = IF written THEN saveConfig(a.config) ELSE disk
              /\ saved' = IF written
                          THEN [by |-> 1, config |-> a.config, sent |-> Len(wire)]
                          ELSE saved
              /\ IF a.kind = "throw"
                 THEN /\ op' = [o0 EXCEPT !.pc = "done", !.result = HandlerThrew(a.error)]
                      /\ wire' = wire
                      /\ call' = done
                 ELSE AfterKey(o0, a.value, c1, done)
    /\ UNCHANGED <<variant, options, env, fsReads, fnIn, fnOut, backend, inflight>>

\* the answer of the operation's own endpoint and the handler's return
OpSettle(responses) ==
    /\ op.pc = "calling"
    /\ \E res \in responses :
          LET outcome == RequestOutcome(res)
          IN  /\ call' = [call EXCEPT !.state = "done", !.res = res, !.outcome = outcome]
              /\ op' = [op EXCEPT !.pc = "done",
                                  !.result = IF outcome.kind = "throw"
                                             THEN HandlerThrew(outcome.error)
                                             ELSE TextResult(formatResults021(outcome.value))]
    /\ UNCHANGED <<variant, options, env, disk, client, fsReads, wire, fnIn, fnOut, backend, saved, inflight>>

\* client.clearAuth(deleteConfig)
ClearAuth ==
    /\ client.state = "ready"
    /\ variant = "0.3.0"
    /\ op.pc \notin {"registering", "calling"}
    /\ \E deleteConfig \in {Undefined, Bool(FALSE), Bool(TRUE)} :
          /\ client' = [client EXCEPT !.apiKey = Undefined, !.agentId = Undefined]
          /\ disk' = clearAuthDisk(disk, deleteConfig)
          /\ saved' = IF disk' = disk THEN saved ELSE NoSave
          /\ op' = [NoOp EXCEPT !.name = "clearAuth", !.pc = "done", !.args = deleteConfig,
                                !.unlinks = IF Truthy(Coalesce(deleteConfig, Bool(FALSE)))
                                            THEN 1 ELSE 0,
                                !.result = TextResult(<<>>)]
    /\ UNCHANGED <<variant, options, env, fsReads, wire, call, fnIn, fnOut, backend, inflight>>

\* another process that shares the config file registers and saves
OtherProcessSave ==
    /\ client.state = "ready"
    /\ saved.by # 2
    /\ saved' = [by |-> 2, config |-> OtherConfig, sent |-> Len(wire)]
    /\ disk' = saveConfig(OtherConfig)
    /\ UNCHANGED <<variant, options, env, client, fsReads, wire, call, fnIn, fnOut, op, backend, inflight>>

\* client.request() of the 0.3.0 client, outside any ensureApiKey
RequestDirect ==
    /\ variant = "0.3.0"
    /\ op.pc \notin {"registering", "calling"}
    /\ \/ RequestFetch({Undefined})
       \/ RequestSettle(OwnResponses)

InitAuto ==
    /\ variant \in {"0.3.0", "0.2.1"}
    /\ options \in {MkOptions(k, Undefined, p) : k \in {Undefined, Str("k_opt")},
                                                 p \in {Undefined, Bool(FALSE)}}
    /\ (variant = "0.2.1" => options = MkOptions(Undefined, Undefined, Undefined))
    /\ env \in {MkEnv(k) : k \in {Undefined, Str("k_env")}}
    /\ (Get(options, "apiKey") = Undefined \/ Get(env, "PRIOR_API_KEY") = Undefined)
    /\ disk \in DiskChoices
    /\ client = Unbuilt
    /\ fsReads = 0
    /\ wire = <<>>
    /\ call = Idle
    /\ fnIn = Undefined
    /\ fnOut = Undefined
    /\ op = NoOp
    /\ backend = "none"
    /\ saved = NoSave
    /\ inflight = <<>>

NextAuto ==
    \/ Construct
    \/ OpStart(IF variant = "0.3.0" THEN {"ensureApiKey"} ELSE OpNames021)
    \/ OpRegistered(RegisterResponses)
    \/ OpSettle(OwnResponses)
    \/ ClearAuth
    \/ OtherProcessSave
    \/ RequestDirect

SpecAuto == InitAuto /\ [][NextAuto]_vars

-----------------------------------------------------------------------------
(* C13..C20: credentials, failures, the config file *)

\* the invocation has ended and its ensureApiKey brought no key
Unresolved == op.pc = "done" /\ op.key # Pending /\ ~Truthy(op.key)

\* the requests the invocation that is running or has just ended has sent
OwnWire == SubSeq(wire, Len(wire) - op.nets + 1, Len(wire))

IsRegisterRequest(req) == req.url = ToText(client.apiUrl) \o <<T("/v1/agents/register")>>

\* C13: whenever no credential can be resolved (none cached, none on disk,
\* registration fails), every operation of the auto-registering server
\* returns a normal text result that carries one and the same fixed
\* diagnostic message pointing to manual PRIOR_API_KEY configuration; it
\* throws nothing and sends no request to its own endpoint.
C13_OneDiagnostic ==
    (variant = "0.2.1" /\ Unresolved) =>
        /\ op.result.kind = "return"
        /\ op.result.text = FailedToRegisterText
        /\ \A i \in 1..Len(OwnWire) : IsRegisterRequest(OwnWire[i])

-----------------------------------------------------------------------------
(* Agent status, as a tool (src/src/tools.ts) and as a resource             *)
(* (src/src/resources.ts)                                                    *)

\* the prior_status handler from the value request() returned on
StatusResult(data) ==
    LET agent == Or(OptGet(data, "data"), data)
        formatted == formatResults(data)
    IN  IF formatted.kind = "throw" THEN HandlerThrew(formatted.text)
        ELSE [kind |-> "return",
              error |-> <<>>,
              structuredContent |->
                  Obj(<< <<"agentId", Or(Or(OptGet(agent, "agentId"), OptGet(agent, "id")), Str(""))>>,
                         <<"credits", Coalesce(OptGet(agent, "credits"), Num(0))>>,
                         <<"tier", Or(OptGet(agent, "tier"), Str("free"))>>,
                         <<"claimed", Coalesce(OptGet(agent, "claimed"), Bool(FALSE))>>,
                         <<"contributions", OptGet(agent, "contributions")>> >>),
              text |-> formatted.text]

\* the text of the prior://agent/status resource for the value request() returned
AgentStatusText(data) ==
    LET agent == Or(OptGet(data, "data"), data)
    IN  JSONstringify(
            Obj(<< <<"agentId", Or(OptGet(agent, "agentId"), OptGet(agent, "id"))>>,
                   <<"credits", Coalesce(OptGet(agent, "credits"), Num(0))>>,
                   <<"tier", Or(OptGet(agent, "tier"), Str("free"))>>,
                   <<"claimed", Coalesce(OptGet(agent, "claimed"), Bool(FALSE))>>,
                   <<"contributions", OptGet(agent, "contributions")>>,
                   <<"searches", OptGet(agent, "searches")>> >>)).text

\* the text of the resource when request() threw: JSON.stringify({ error: err.message })
AgentStatusErrorText(message) == <<P("{"), S("error"), P(":"), R(message), P("}")>>

\* what the host gets from either, from the outcome of request() on
StatusOutcome(name, outcome) ==
    IF name = "prior_status"
    THEN (IF outcome.kind = "throw" THEN HandlerThrew(outcome.error)
          ELSE StatusResult(outcome.value))
    ELSE TextResult(IF outcome.kind = "throw" THEN AgentStatusErrorText(outcome.error)
                    ELSE AgentStatusText(outcome.value))

MaxStatusCalls == 3     \* status calls and reads per behaviour

\* what GET /v1/agents/me may answer
StatusResponses ==
    [status : {200, 401, 429, 500},
     text : { JSONstringify(Obj(<< <<"ok", Bool(TRUE)>>,
                  <<"data", Obj(<< <<"agentId", Str("a_1")>>, <<"credits", Num(5)>>,
                                   <<"claimed", Bool(TRUE)>> >>)>> >>)).text,
              JSONstringify(Obj(<< <<"id", Str("a_1")>>, <<"tier", Str("pro")>> >>)).text,
              JSONstringify(Obj(<< <<"error", Str("nope")>> >>)).text,
              <<L("null")>>,
              <<T("oops")>> }]

\* a prior_status call or a read of prior://agent/status up to its await
StatusSend ==
    /\ client.state = "ready"
    /\ op.pc # "awaiting"
    /\ Len(wire) < MaxStatusCalls
    /\ \E name \in {"prior_status", "prior://agent/status"} :
          op' = [NoOp EXCEPT !.name = name, !.pc = "awaiting", !.nets = 1]
    /\ wire' = Append(wire, FetchArgs(client, "GET", <<T("/v1/agents/me")>>, Undefined, Undefined))
    /\ call' = [Idle EXCEPT !.state = "awaiting", !.sent = TRUE]
    /\ UNCHANGED <<variant, options, env, disk, client, fsReads, fnIn, fnOut, backend, saved, inflight>>

\* the same from the response on
StatusSettle ==
    /\ op.name \in {"prior_status", "prior://agent/status"}
    /\ op.pc = "awaiting"
    /\ \E res \in StatusResponses :
          /\ call' = [call EXCEPT !.state = "done", !.res = res, !.outcome = Settle(res)]
          /\ op' = [op EXCEPT !.pc = "done", !.result = StatusOutcome(op.name, Settle(res))]
    /\ UNCHANGED <<variant, options, env, disk, client, fsReads, wire, fnIn, fnOut, backend, saved, inflight>>

InitStatus ==
    /\ variant = "0.5.0"
    /\ options = MkOptions(Str("k_opt"), Undefined, Bool(FALSE))
    /\ env = MkEnv(Undefined)
    /\ disk = NoFile
    /\ client = Unbuilt
    /\ fsReads = 0
    /\ wire = <<>>
    /\ call = Idle
    /\ fnIn = Undefined
    /\ fnOut = Undefined
    /\ op = NoOp
    /\ backend = "none"
    /\ saved = NoSave
    /\ inflight = <<>>

NextStatus ==
    \/ Construct
    \/ StatusSend
    \/ StatusSettle

SpecStatus == InitStatus /\ [][NextStatus]_vars

\* C14: a non-success HTTP response is never silently swallowed: for every
\* exposed operation and resource read the failure reaches the host as an
\* error that carries the status code and the body text, and no normal
\* result built from default values is returned in its place.
C14_FailureReachesHost ==
    (op.pc = "done" /\ op.name \in {"prior_status", "prior://agent/status"} /\ ~ResOk(call.res)) =>
        /\ op.result.kind = "throw"
        /\ op.result.error = <<T("API error "), N(call.res.status), T(": ")>> \o call.res.text

\* the step in which a call of ensureApiKey ends: at once, or on the
\* answer to its registration request
EnsureReturns ==
    /\ op' # op
    /\ op.pc # "calling"
    /\ op'.pc # "registering"
    /\ op'.name # "clearAuth"

\* C15: ensureApiKey never throws: when no credential is cached, none can
\* be loaded from disk and the registration call fails (transport error,
\* non-success status, or a response without a key), it returns null,
\* leaves the in-memory credential unset and writes no config file.
C15_EnsureNeverThrows ==
    [][ EnsureReturns =>
            /\ op'.result.kind # "throw"
            /\ op'.key # Pending
            /\ (op.pc = "registering" /\ call'.res \in RegistrationFailures) =>
                  /\ op'.key = Null
                  /\ ~Truthy(client'.apiKey)
                  /\ ~Truthy(client'.agentId) \/ client'.agentId = client.agentId
                  /\ op'.writes = 0
                  /\ disk' = disk
                  /\ saved' = saved ]_vars

C15_Witness ==
    /\ op.name = "ensureApiKey"
    /\ op.pc = "done"
    /\ op.key = Null
    /\ call.res = NetworkDown
    /\ ~Truthy(client.apiKey)
    /\ disk = NoFile

\* the record a loadConfig would return is the record rec, whole: the
\* same apiKey, the same agentId and nothing else
LoadsRecord(loaded, rec) ==
    /\ loaded.t = "object"
    /\ Get(loaded, "apiKey") = Get(rec, "apiKey")
    /\ Get(loaded, "agentId") = Get(rec, "agentId")
    /\ \A i \in 1..Len(loaded.v) : loaded.v[i][1] \in {"apiKey", "agentId"}

\* C16: after any sequence of saveConfig calls, by this process or by
\* another one sharing the file, loadConfig returns exactly the record of
\* the most recent saveConfig: apiKey and agentId of that one record, never
\* a mixture of two records and never a partly written file.
C16_LastWriterWins ==
    saved.by # 0 => LoadsRecord(loadConfig(disk), saved.config)

\* this process registered and saved, then the other process saved
C16_Witness ==
    /\ saved.by = 2
    /\ client.apiKey = Str("k_reg")
    /\ Truthy(client.persistConfig)
    /\ op.writes = 1
    /\ op.key = Str("k_reg")
    /\ LoadsRecord(loadConfig(disk), OtherConfig)

\* a step of clearAuth: no request is sent or answered and nothing is saved
ClearAuthStep ==
    /\ op'.name = "clearAuth"
    /\ wire' = wire
    /\ call' = call
    /\ saved' \in {saved, NoSave}

C18_NoRetry ==
    [][ /\ Len(wire') <= Len(wire) + 1
        /\ SubSeq(wire', 1, Len(wire)) = wire
        /\ (call.state # "awaiting" /\ call'.state = "awaiting") => Len(wire') = Len(wire) + 1
        /\ call.state = "awaiting" =>
              \A i \in (Len(wire) + 1)..Len(wire') : wire'[i] # wire[Len(wire)]
        /\ (call.state = "awaiting" /\ call'.res.status \in {429, 500}) =>
              /\ call'.state = "done"
              /\ call'.outcome.kind = "throw"
              /\ wire' = wire ]_vars

\* one request sent, answered 429, and the call has thrown
C18_Witness ==
    /\ Len(wire) = 1
    /\ call.state = "done"
    /\ call.res.status = 429
    /\ call.outcome.kind = "throw"

\* C19: each operation invocation performs at most one outbound network
\* call and at most one read or write of the credential file.
C19_OneCallOneFileAccess ==
    /\ op.nets <= 1
    /\ op.reads + op.writes <= 1

\* C19, amended: an invocation performs at most two outbound network
\* calls, the registration of ensureApiKey and after it the call to the
\* operation's own endpoint, and at most one read, one write and one removal
\* of the credential file; it is suspended only while one of these calls
\* awaits its answer, and the file is written only after the registration.
C19_TwoCallsOneFileAccessEach ==
    /\ op.nets <= 2
    /\ op.nets <= Len(wire)
    /\ op.nets = 2 => /\ IsRegisterRequest(wire[Len(wire) - 1])
                      /\ ~IsRegisterRequest(wire[Len(wire)])
    /\ op.reads <= 1
    /\ op.writes <= 1
    /\ op.unlinks <= 1
    /\ op.writes = 1 => op.nets >= 1
    /\ op.pc \in {"idle", "registering", "calling", "done"}
    /\ op.pc \in {"registering", "calling"} => call.state = "awaiting"

\* a search that read the file, registered, saved the key and then searched
C19_Witness ==
    /\ op.name = "prior_search"
    /\ op.pc = "done"
    /\ op.nets = 2
    /\ op.reads = 1
    /\ op.writes = 1
    /\ op.result.kind = "return"

\* a step in which the process itself gives up its credentials
Forgets == op' # op /\ op'.name \in {"clearAuth", "prior_register"}

\* C20: two processes share the credential file without lock, version or
\* merge: a process that holds a cached credential never re-reads the
\* file, so after the other process overwrites the file it keeps sending
\* its cached key on every later request; the file is re-read only on
\* demand, by ensureApiKey in a process that holds no cached key.
C20_CachedKeyNeverReread ==
    [][ /\ (Truthy(client.apiKey) /\ ~Forgets) =>
              /\ fsReads' = fsReads
              /\ client'.apiKey = client.apiKey
              /\ Len(wire') > Len(wire) =>
                    Header(wire'[Len(wire')], "Authorization")
                        = <<T("Bearer ")>> \o ToText(client.apiKey)
        /\ (client.state = "ready" /\ fsReads' # fsReads) =>
              /\ fsReads' = fsReads + 1
              /\ op'.reads = 1
              /\ op'.name \in {"ensureApiKey"} \cup OpNames021
              /\ ~Truthy(client.apiKey) \/ op'.name = "prior_register"
        /\ (saved'.by = 2 /\ saved' # saved) =>
              /\ disk' = saveConfig(OtherConfig)
              /\ client' = client ]_vars

\* the other process has overwritten the file, and a request sent after
\* that still carries the key this process had cached
C20_Witness ==
    /\ saved.by = 2
    /\ saved.sent < Len(wire)
    /\ Truthy(client.apiKey)
    /\ client.apiKey # Get(OtherConfig, "apiKey")
    /\ Get(loadConfig(disk), "apiKey") = Get(OtherConfig, "apiKey")
    /\ Header(wire[Len(wire)], "Authorization") = <<T("Bearer ")>> \o ToText(client.apiKey)

-----------------------------------------------------------------------------
(* C21..C30: entries, annotations, hosts, concurrent registration *)

\* a search has returned a result to the host
SearchReturned == call.state = "done" /\ fnOut.kind = "return"

\* the fields of an entry that the handler copies as they are, and those
\* it replaces by "" when they are falsy
CopiedFields == {"tags", "qualityScore", "relevanceScore", "failedApproaches"}
DefaultedFields == {"id", "title", "content"}

\* C21: an entry returned by a search is passed through unmodified except
\* for the derived feedbackActions: every field of the raw entry appears in
\* the structured entry with the same value, and no field value is altered,
\* defaulted or dropped.
C21_PassedThrough ==
    SearchReturned =>
        LET raw == RawResultsOf(call.outcome.value)
            entries == Get(fnOut.structuredContent, "results")
        IN  \A i \in 1..Len(entries.v) :
               /\ \A j \in 1..Len(raw[i].v) :
                     Get(entries.v[i], raw[i].v[j][1]) = raw[i].v[j][2]
               /\ \A k \in CopiedFields \cup DefaultedFields :
                     Get(entries.v[i], k) = Get(raw[i], k)

\* C21, amended: a structured entry is the projection of the raw entry
\* onto id, title, content, tags, qualityScore, relevanceScore and
\* failedApproaches, plus feedbackActions: id, title and content are the
\* raw values when truthy and "" otherwise, the other four are the raw
\* values or undefined, and every other raw field is dropped.
C21_Projected ==
    SearchReturned =>
        LET raw == RawResultsOf(call.outcome.value)
            entries == Get(fnOut.structuredContent, "results")
        IN  /\ Len(entries.v) = Len(raw)
            /\ \A i \in 1..Len(entries.v) :
                  /\ Keys(entries.v[i]) = <<"id", "title", "content", "tags", "qualityScore",
                                            "relevanceScore", "failedApproaches",
                                            "feedbackActions">>
                  /\ \A k \in DefaultedFields :
                        Get(entries.v[i], k) = IF Truthy(Get(raw[i], k)) THEN Get(raw[i], k)
                                               ELSE Str("")
                  /\ \A k \in CopiedFields : Get(entries.v[i], k) = Get(raw[i], k)

\* an entry with a field of its own came back without it
C21_Witness ==
    /\ SearchReturned
    /\ Len(RawResultsOf(call.outcome.value)) = 1
    /\ Get(RawResultsOf(call.outcome.value)[1], "trustLevel") = Str("community")
    /\ Get(Get(fnOut.structuredContent, "results").v[1], "trustLevel") = Undefined
    /\ Get(Get(fnOut.structuredContent, "results").v[1], "title") = Str("T1")

-----------------------------------------------------------------------------
(* prior_contribute: src/src/tools.ts *)

\* body with the field k added when args holds something truthy under k
WithTruthy(body, args, k) ==
    IF Truthy(Get(args, k)) THEN SetKey(body, k, Get(args, k)) ELSE body

\* as ContributeBody, but with the model as the caller gave it
ContributeBodyAsGiven(args) ==
    Obj(WithTruthy(WithTruthy(WithTruthy(WithTruthy(WithTruthy(WithTruthy(WithTruthy(
        << <<"title", Get(args, "title")>>, <<"content", Get(args, "content")>>,
           <<"tags", Get(args, "tags")>>, <<"model", Get(args, "model")>> >>,
        args, "problem"), args, "solution"), args, "errorMessages"), args, "failedApproaches"),
        args, "environment"), args, "effort"), args, "ttl"))

\* the request body the handler builds from the tool arguments
ContributeBody(args) ==
    Obj(WithTruthy(WithTruthy(WithTruthy(WithTruthy(WithTruthy(WithTruthy(WithTruthy(
        << <<"title", Get(args, "title")>>, <<"content", Get(args, "content")>>,
           <<"tags", Get(args, "tags")>>,
           <<"model", Or(Get(args, "model"), Str("unknown"))>> >>,
        args, "problem"), args, "solution"), args, "errorMessages"), args, "failedApproaches"),
        args, "environment"), args, "effort"), args, "ttl"))

\* the handler from the value request() returned on
ContributeResult(data) ==
    LET entry == Or(OptGet(data, "data"), data)
        formatted == formatResults(data)
    IN  IF formatted.kind = "throw" THEN HandlerThrew(formatted.text)
        ELSE [kind |-> "return",
              error |-> <<>>,
              structuredContent |->
                  Obj(<< <<"id", Or(Or(OptGet(entry, "id"), OptGet(entry, "shortId")), Str(""))>>,
                         <<"status", Or(OptGet(entry, "status"), Str("active"))>>,
                         <<"creditsEarned", OptGet(entry, "creditsEarned")>> >>),
              text |-> formatted.text]

MaxContributions == 2   \* prior_contribute calls per behaviour

\* the arguments of a prior_contribute call: the model left out, empty and
\* given; a title and a tag list that are empty or not; one optional field
ContributeArgs ==
    {Obj(<< <<"title", Str(t)>>, <<"content", Str("c")>>, <<"tags", g>>, <<"model", m>>,
            <<"problem", p>> >>) :
        t \in {"", "t"}, g \in {Arr(<<>>), Arr(<<Str("ts")>>)},
        m \in {Undefined, Str(""), Str("gpt-4o")}, p \in {Undefined, Str("p")}}

ContributeResponses ==
    { [status |-> 200, text |-> JSONstringify(Obj(<< <<"ok", Bool(TRUE)>>,
            <<"data", Obj(<< <<"id", Str("k_9")>>, <<"status", Str("pending")>> >>)>> >>)).text],
      [status |-> 200, text |-> JSONstringify(Obj(<< <<"shortId", Str("k_9")>> >>)).text],
      [status |-> 500, text |-> <<T("oops")>>] }

\* a call of prior_contribute up to its await of client.request
ContributeSend ==
    /\ client.state = "ready"
    /\ op.pc # "awaiting"
    /\ Len(wire) < MaxContributions
    /\ \E args \in ContributeArgs :
          /\ wire' = Append(wire, FetchArgs(client, "POST", <<T("/v1/knowledge/contribute")>>,
                                            ContributeBody(args), Undefined))
          /\ op' = [NoOp EXCEPT !.name = "prior_contribute", !.pc = "awaiting",
                                !.args = args, !.nets = 1]
    /\ call' = [Idle EXCEPT !.state = "awaiting", !.sent = TRUE]
    /\ UNCHANGED <<variant, options, env, disk, client, fsReads, fnIn, fnOut, backend, saved, inflight>>

\* the handler from the response on
ContributeSettle ==
    /\ op.name = "prior_contribute"
    /\ op.pc = "awaiting"
    /\ \E res \in ContributeResponses :
          LET outcome == Settle(res)
          IN  /\ call' = [call EXCEPT !.state = "done", !.res = res, !.outcome = outcome]
              /\ op' = [op EXCEPT !.pc = "done",
                                  !.result = IF outcome.kind = "throw"
                                             THEN HandlerThrew(outcome.error)
                                             ELSE ContributeResult(outcome.value)]
    /\ UNCHANGED <<variant, options, env, disk, client, fsReads, wire, fnIn, fnOut, backend, saved, inflight>>

InitContribute ==
    /\ variant = "0.5.0"
    /\ options = MkOptions(Str("k_opt"), Undefined, Bool(FALSE))
    /\ env = MkEnv(Undefined)
    /\ disk = NoFile
    /\ client = Unbuilt
    /\ fsReads = 0
    /\ wire = <<>>
    /\ call = Idle
    /\ fnIn = Undefined
    /\ fnOut = Undefined
    /\ op = NoOp
    /\ backend = "none"
    /\ saved = NoSave
    /\ inflight = <<>>

NextContribute ==
    \/ Construct
    \/ ContributeSend
    \/ ContributeSettle

SpecContribute == InitContribute /\ [][NextContribute]_vars

\* the latest request is the one of the contribute invocation in op
Contributed == op.name = "prior_contribute" /\ Len(wire) > 0

SentBody == JSONparse(wire[Len(wire)].body.text).value

\* C22: contribute always sends a model field: the caller's model when
\* one is supplied, "unknown" when it is absent; the required title,
\* content and tags are forwarded unchanged.
C22_ModelAsSupplied ==
    Contributed =>
        /\ HasKey(SentBody, "model")
        /\ Get(SentBody, "model") = IF Get(op.args, "model") = Undefined THEN Str("unknown")
                                    ELSE Get(op.args, "model")
        /\ \A k \in {"title", "content", "tags"} : Get(SentBody, k) = Get(op.args, k)

\* C22, amended: contribute always sends a model field: the caller's
\* model when a non-empty one is supplied, "unknown" when it is absent or
\* the empty string; title, content and tags are forwarded unchanged.
C22_ModelOrUnknown ==
    Contributed =>
        /\ HasKey(SentBody, "model")
        /\ Get(SentBody, "model") = IF Get(op.args, "model") \in {Undefined, Str("")}
                                    THEN Str("unknown")
                                    ELSE Get(op.args, "model")
        /\ \A k \in {"title", "content", "tags"} :
              HasKey(SentBody, k) /\ Get(SentBody, k) = Get(op.args, k)

\* a contribution without a model went out as model "unknown", its empty
\* title and tag list as they were
C22_Witness ==
    /\ Contributed
    /\ Get(op.args, "model") = Undefined
    /\ Get(op.args, "title") = Str("")
    /\ Get(op.args, "tags") = Arr(<<>>)
    /\ Get(SentBody, "model") = Str("unknown")
    /\ Get(SentBody, "title") = Str("")

-----------------------------------------------------------------------------
(* Tool annotations: src/src/tools.ts *)

MkAnnotations(readOnly, destructive, idempotent, openWorld) ==
    Obj(<< <<"readOnlyHint", Bool(readOnly)>>, <<"destructiveHint", Bool(destructive)>>,
           <<"idempotentHint", Bool(idempotent)>>, <<"openWorldHint", Bool(openWorld)>> >>)

ToolNames == {"prior_search", "prior_contribute", "prior_feedback", "prior_status",
              "prior_retract"}

\* the annotations each registerTool call declares
Annotations(name) ==
    CASE name = "prior_search" -> MkAnnotations(TRUE, FALSE, TRUE, TRUE)
      [] name = "prior_contribute" -> MkAnnotations(FALSE, FALSE, FALSE, TRUE)
      [] name = "prior_feedback" -> MkAnnotations(FALSE, FALSE, FALSE, TRUE)
      [] name = "prior_status" -> MkAnnotations(TRUE, FALSE, TRUE, FALSE)
      [] name = "prior_retract" -> MkAnnotations(FALSE, TRUE, FALSE, FALSE)

\* C23: the declared annotations match the operation table: search and
\* status read-only and idempotent; contribute mutating and not
\* idempotent; feedback mutating and idempotent; retract mutating,
\* destructive and not idempotent.
C23_AnnotationsMatchTable ==
    /\ \A name \in {"prior_search", "prior_status"} :
          /\ Get(Annotations(name), "readOnlyHint") = Bool(TRUE)
          /\ Get(Annotations(name), "idempotentHint") = Bool(TRUE)
    /\ Get(Annotations("prior_contribute"), "readOnlyHint") = Bool(FALSE)
    /\ Get(Annotations("prior_contribute"), "idempotentHint") = Bool(FALSE)
    /\ Get(Annotations("prior_retract"), "readOnlyHint") = Bool(FALSE)
    /\ Get(Annotations("prior_retract"), "destructiveHint") = Bool(TRUE)
    /\ Get(Annotations("prior_retract"), "idempotentHint") = Bool(FALSE)
    /\ op.name = "prior_feedback" =>
          /\ Get(Annotations(op.name), "readOnlyHint") = Bool(FALSE)
          /\ Get(Annotations(op.name), "idempotentHint") = Bool(TRUE)

-----------------------------------------------------------------------------
(* detectHost: src/src/utils.ts *)

\* the variables detectHost looks at, and what each may hold: nothing, the
\* empty string, and strings that are no numbers or booleans to process.env
HostVars == <<"CURSOR_TRACE_ID", "CURSOR_SESSION", "VSCODE_PID", "VSCODE_CWD",
              "WINDSURF_SESSION", "OPENCLAW_SESSION">>

HostValues == {Undefined, Str(""), Str("0"), Str("false")}

HostEnvs ==
    {Obj([i \in 1..Len(HostVars) |-> <<HostVars[i], f[i]>>]) : f \in [1..Len(HostVars) -> HostValues]}

\* detectHost()
DetectHost ==
    /\ fnOut = Undefined
    /\ fnOut' = Str(detectHost(env))
    /\ UNCHANGED <<variant, options, env, disk, client, fsReads, wire, call, fnIn, op, backend, saved, inflight>>

InitHost ==
    /\ variant = "0.5.0"
    /\ options = MkOptions(Str("k_opt"), Undefined, Bool(FALSE))
    /\ env \in HostEnvs
    /\ disk = NoFile
    /\ client = Unbuilt
    /\ fsReads = 0
    /\ wire = <<>>
    /\ call = Idle
    /\ fnIn = Undefined
    /\ fnOut = Undefined
    /\ op = NoOp
    /\ backend = "none"
    /\ saved = NoSave
    /\ inflight = <<>>

NextHost == DetectHost

SpecHost == InitHost /\ [][NextHost]_vars

\* the variable k is set: a string, and not the empty one
IsSet(k) == Get(env, k).t = "string" /\ Get(env, k).v # ""

\* the hosts in their order of priority, each with its variables
HostPriority ==
    << <<"cursor", {"CURSOR_TRACE_ID", "CURSOR_SESSION"}>>,
       <<"vscode", {"VSCODE_PID", "VSCODE_CWD"}>>,
       <<"windsurf", {"WINDSURF_SESSION"}>>,
       <<"openclaw", {"OPENCLAW_SESSION"}>> >>

Matches(i) == \E k \in HostPriority[i][2] : IsSet(k)

\* C24: detectHost returns the first match in the order cursor, vscode,
\* windsurf, openclaw; a variable counts as set only when it is a non-empty
\* string ("0" and "false" count, "" does not); the result is "unknown"
\* when none is set.
C24_FirstMatch ==
    fnOut # Undefined =>
        /\ \A i \in 1..Len(HostPriority) :
              (Matches(i) /\ \A j \in 1..(i - 1) : ~Matches(j)) => fnOut = Str(HostPriority[i][1])
        /\ (\A i \in 1..Len(HostPriority) : ~Matches(i)) => fnOut = Str("unknown")

\* cursor wins over vscode on a variable that holds "0", with the other
\* cursor variable empty
C24_Witness ==
    /\ fnOut = Str("cursor")
    /\ Get(env, "CURSOR_TRACE_ID") = Str("")
    /\ Get(env, "CURSOR_SESSION") = Str("0")
    /\ Get(env, "VSCODE_PID") = Str("false")
    /\ Get(env, "OPENCLAW_SESSION") = Str("0")

\* the first element of the result list is null or a string, a number or
\* a boolean
FirstIsPrimitive(d) ==
    /\ IsNonEmptyArray(ResultListOf(d))
    /\ ResultListOf(d).v[1].t \in {"null", "string", "number", "boolean"}

\* C25: formatResults returns without throwing for every JSON value, also
\* for payloads whose results array starts with null or a primitive; for
\* those the output is the plain JSON serialization with no nudge.
C25_NeverThrows ==
    Called =>
        /\ fnOut.kind = "return"
        /\ FirstIsPrimitive(fnIn) => fnOut.text = JSONstringify(fnIn).text

\* C26: ensureApiKey returns a non-null key if and only if the client
\* holds that key in memory when the call returns; it never returns null
\* while having cached a newly registered key, also when writing the new
\* credential to the config file fails.
C26_ReturnsWhatItHolds ==
    op.key # Pending =>
        \/ op.key = client.apiKey
        \/ IsNullish(op.key) /\ IsNullish(client.apiKey)

-----------------------------------------------------------------------------
(* Concurrent ensureApiKey calls of one process *)

MaxConcurrent == 3   \* ensureApiKey calls of one behaviour

\* the credentials the backend issues to the n-th registration request it
\* is sent: every registration makes a new agent
IssuedKeys == <<"k_reg1", "k_reg2", "k_reg3", "k_reg4">>
IssuedIds == <<"a_reg1", "a_reg2", "a_reg3", "a_reg4">>

\* what the backend may answer to the n-th registration request
IssuedResponses(n) ==
    { NetworkDown,
      [status |-> 500, text |-> <<T("oops")>>],
      [status |-> 200, text |-> JSONstringify(Obj(<< <<"ok", Bool(TRUE)>>,
            <<"data", MkConfig(Str(IssuedKeys[n]), Str(IssuedIds[n]))>> >>)).text] }

NotBegun == [pc |-> "idle", sent |-> 0, key |-> Pending]

\* call i of ensureApiKey from its invocation to its await or its return:
\* the test of the cached key, the read of the config file and the hand-over
\* of the registration request run without interruption
EnsureBegin(i) ==
    /\ client.state = "ready"
    /\ inflight[i].pc = "idle"
    /\ LET b == ensureApiKeyBefore(client, disk)
           c1 == [client EXCEPT !.apiKey = b.apiKey, !.agentId = b.agentId]
       IN  /\ client' = c1
           /\ fsReads' = fsReads + b.reads
           /\ IF b.kind = "register"
              THEN /\ wire' = Append(wire, FetchArgs(c1, "POST", <<T("/v1/agents/register")>>,
                                                     RegisterBody(env), Undefined))
                   /\ inflight' = [inflight EXCEPT ![i] = [pc |-> "registering",
                                                           sent |-> Len(wire) + 1,
                                                           key |-> Pending]]
              ELSE /\ wire' = wire
                   /\ inflight' = [inflight EXCEPT ![i] = [pc |-> "done", sent |-> 0,
                                                           key |-> b.value]]
    /\ UNCHANGED <<variant, options, env, disk, call, fnIn, fnOut, op, backend, saved>>

\* the answer to the registration request of call i and the rest of that
\* call: the cached key is not looked at again before it is overwritten
EnsureResume(i) ==
    /\ inflight[i].pc = "registering"
    /\ \E res \in IssuedResponses(inflight[i].sent) :
       \E a \in SaveOutcomes(ensureApiKeyAfter(client, RequestOutcome(res))) :
          LET outcome == RequestOutcome(res)
              written == a.writes = 1 /\ a.config # Undefined
          IN  /\ client' = [client EXCEPT !.apiKey = a.apiKey, !.agentId = a.agentId]
              /\ disk' = IF written THEN saveConfig(a.config) ELSE disk
              /\ saved' = IF written
                          THEN [by |-> 1, config |-> a.config, sent |-> inflight[i].sent]
                          ELSE saved
              /\ call' = [Idle EXCEPT !.state = "done", !.sent = TRUE, !.res = res,
                                      !.outcome = outcome]
              /\ inflight' = [inflight EXCEPT ![i] = [pc |-> "done", sent |-> inflight[i].sent,
                                                      key |-> a.value]]
    /\ UNCHANGED <<variant, options, env, fsReads, wire, fnIn, fnOut, op, backend>>

InitConcurrent ==
    /\ variant = "0.3.0"
    /\ options \in {MkOptions(Undefined, Undefined, p) : p \in {Undefined, Bool(FALSE)}}
    /\ env = MkEnv(Undefined)
    /\ disk \in DiskChoices
    /\ client = Unbuilt
    /\ fsReads = 0
    /\ wire = <<>>
    /\ call = Idle
    /\ fnIn = Undefined
    /\ fnOut = Undefined
    /\ op = NoOp
    /\ backend = "none"
    /\ saved = NoSave
    /\ inflight = [i \in 1..MaxConcurrent |-> NotBegun]

NextConcurrent ==
    \/ Construct
    \/ \E i \in 1..MaxConcurrent : EnsureBegin(i)
    \/ \E i \in 1..MaxConcurrent : EnsureResume(i)

SpecConcurrent == InitConcurrent /\ [][NextConcurrent]_vars

AllCompleted == \A i \in 1..MaxConcurrent : inflight[i].pc = "done"

Registered == {i \in 1..MaxConcurrent : inflight[i].sent > 0}

\* the record the registration processed last brought, Undefined when it
\* brought none
LastProcessed ==
    LET a == ensureApiKeyAfter(client, call.outcome)
    IN  IF call.state = "done" /\ Truthy(a.value)
        THEN MkConfig(a.apiKey, a.agentId) ELSE Undefined

MemoryAndFileAgree ==
    LoadsRecord(loadConfig(disk), MkConfig(client.apiKey, client.agentId))

\* a call that begins once another call has returned a key sends nothing
NoLaterRegistration ==
    \A i \in 1..MaxConcurrent :
        (/\ inflight[i].pc = "idle"
         /\ inflight'[i].pc # "idle"
         /\ \E j \in 1..MaxConcurrent : inflight[j].pc = "done" /\ Truthy(inflight[j].key))
        => (inflight'[i].pc = "done" /\ wire' = wire)

\* C27: when the concurrent ensureApiKey calls of a process that persists
\* its configuration have all completed and a registration has brought a
\* key, the credential in memory and the config file hold the same record,
\* the one of the registration whose response was processed last when that
\* one brought a key; and a call begun after another has returned a key
\* sends no registration request.
C27_LastProcessedEverywhere ==
    /\ [](AllCompleted /\ Truthy(client.persistConfig) /\ Registered # {}
            /\ Truthy(client.apiKey)
          => /\ MemoryAndFileAgree
             /\ LastProcessed # Undefined
                  => LastProcessed = MkConfig(client.apiKey, client.agentId))
    /\ [][NoLaterRegistration]_vars

-----------------------------------------------------------------------------
(* prior_register of the 0.2.1 server *)

\* the step in which prior_register is invoked
RegisterInvoked ==
    /\ op' # op
    /\ op'.name = "prior_register"
    /\ op.pc \notin {"registering", "calling"}

\* the step in which the registration of prior_register is answered
\* without a key, no other process having written the file meanwhile
RegisterFailed ==
    /\ op.name = "prior_register"
    /\ op.pc = "registering"
    /\ op' # op
    /\ call'.res \in RegistrationFailures
    /\ saved.by # 2

-----------------------------------------------------------------------------
(* The two result lists of one search *)

\* the tokens of text from position p up to the end of its line
RestOfLine(text, p) ==
    LET ends == {q \in p..Len(text) : text[q].t = "newline"}
        stop == IF ends = {} THEN Len(text) + 1
                ELSE CHOOSE q \in ends : \A r \in ends : q <= r
    IN  SubSeq(text, p, stop - 1)

\* C29: in the output of one search, the ids on the 'All result IDs' line
\* of the text are the ids of the entries of the structured results list,
\* in the same order, whatever the shape of the response.
C29_SameList ==
    SearchReturned =>
        LET entries == Get(fnOut.structuredContent, "results").v
            ids == Join([i \in 1..Len(entries) |-> Get(entries[i], "id")], ", ")
        IN  \A p \in 1..Len(fnOut.text) :
               fnOut.text[p] = T("All result IDs: ")
                  => RestOfLine(fnOut.text, p + 1) = ids

\* the creditsUsed the response reports, at its top level or inside its
\* envelope; Undefined when it reports none
ReportedCredits(data) ==
    IF HasKey(data, "creditsUsed") THEN Get(data, "creditsUsed")
    ELSE Get(Get(data, "data"), "creditsUsed")

\* C30: creditsUsed of the structured output of a search is the creditsUsed
\* the response reports whenever it reports one, 0 included, and 1 only
\* when the response reports none.
C30_CreditsAsReported ==
    SearchReturned =>
        LET reported == ReportedCredits(call.outcome.value)
        IN  Get(fnOut.structuredContent, "creditsUsed") =
                IF reported = Undefined THEN Num(1) ELSE reported

=============================================================================
